---- MODULE Spec2Model ----
(***************************************************************************)
(* Session lifecycle of the Signify iD client SDK: the SignifyProvider      *)
(* auth state (isAuthenticated, isLoading, session), its two refs           *)
(* (isInitialized, isValidating), the mount effect, validateSession,        *)
(* login, logout, and the ProtectedRoute guard that observes the state.     *)
(*                                                                         *)
(* Granularity.  JavaScript runs each continuation to completion, so an     *)
(* operation is split only at its awaits (fetch, response.json()).  The     *)
(* state writes that follow an await (setIsAuthenticated, setSession,       *)
(* setIsLoading) are separate steps, because React 17 (supported by the     *)
(* package, README "Prerequisites") renders synchronously on every state    *)
(* write made outside a React event handler.  No other operation starts     *)
(* between two such writes (Busy); a mounted guard, which re-renders on     *)
(* every committed write, is part of each write step.                       *)
(*                                                                         *)
(* window.location.reload() only requests the reload: continuations may     *)
(* still run before the page unloads, and outside a browser nothing is      *)
(* reloaded, so the provider keeps running after a logout.                  *)
(*                                                                         *)
(* Spec is the provider alone, GuardSpec the provider with a ProtectedRoute *)
(* below it that its parent re-renders, LoginSpec the mount sequence with   *)
(* direct login() calls, FairSpec the validations alone with the scheduling *)
(* under which requests settle and continuations run, StableSpec the        *)
(* validations with direct login() calls, HookSpec the hooks                *)
(* (useClientAuth, useClientLogout, useTokenRefresh) over the provider of   *)
(* context.tsx on a page without a session, and ContextSpec the same hooks  *)
(* together with the mount-time validation of that provider.  The utility   *)
(* functions are called on their own in UtilSpec (utils/url), StorageSpec   *)
(* (utils/storage, the session cache and a clock), CookieSpec               *)
(* (utils/cookies on the text of document.cookie) and StateSpec (the CSRF   *)
(* state functions of utils.ts over sessionStorage).                        *)
(***************************************************************************)
EXTENDS Integers, Sequences, FiniteSets, TLC

\* ---------------------------------------------------------------- bounds
MaxValidateCalls == 1   \* validateSession() calls made by descendants
MaxLogoutCalls   == 1   \* logout() calls
MaxLoginCalls    == 1   \* login() calls made directly by descendants
MaxRerenders     == 2   \* re-renders of the guard caused by its parent
MaxHookCalls     == 2   \* operations invoked through the hooks
MaxUtilCalls     == 2   \* direct calls of the utility functions
MaxQueryLen      == 2   \* parameters in the query string of a utility call
MaxTicks         == 3   \* clock advances of TickMs milliseconds each

\* ------------------------------------------------------- values, config
NULL == "null"                      \* JavaScript null / undefined

TokenParam == "token"               \* DEFAULT_CONFIG.tokenParam
CookieName == "clientSession"       \* DEFAULT_CONFIG.cookieName
LoginUrl   == "https://id.example/login"   \* config.loginUrl

\* JavaScript truthiness of a string-or-null value
Truthy(s) == s # NULL /\ s # ""

\* query strings the page may be loaded with: a sequence of <<name, value>>
InitialQueries ==
  { <<>>,
    << <<"token", "">> >>,
    << <<"page", "2">>, <<"token", "t1">> >> }

\* credential values that may already be stored when the page loads
InitialCookies == {NULL, "old"}

\* how the validate request may end
FetchResults == {"reject", "status", "ok"}
JsonResults  == {"badjson", "invalid", "valid", "valid_nouser"}

\* the parsed body of a validate response (SignifySession)
ResponseData(outcome) ==
  CASE outcome = "valid"        -> [valid |-> TRUE,  user |-> "u1",
                                    expiresAt |-> "2030-01-01T00:00:00Z"]
    [] outcome = "valid_nouser" -> [valid |-> TRUE,  user |-> NULL]
    [] OTHER                    -> [valid |-> FALSE, user |-> NULL]

\* how the logout request may end
LogoutResults == {"ok", "status", "reject"}

\* props the guard may be rendered with, and identities of login()
RedirectUrls  == {NULL, "/auth/login"}
OnRedirectIds == {NULL, "cb1", "cb2"}
LoginIds      == {"login1", "login2"}

VARIABLES
  browser,          \* isBrowser(): window and document exist
  urlQuery,         \* window.location.search as a sequence of <<name, value>>
  cookieJar,        \* document.cookie: cookie name -> value or NULL
  replaceStates,    \* number of history.replaceState calls
  reloads,          \* number of window.location.reload calls
  isAuthenticated,  \* useState(false)
  isLoading,        \* useState(true)
  session,          \* useState(null): {} is null, {d} is the session d
  isInitialized,    \* useRef(false)
  isValidating,     \* useRef(false)
  mounted,          \* the first flush of effects has happened
  reran,            \* the mount effect has run more than once
  initBodyRuns,     \* number of runs of the mount effect past its guard
  initToken,        \* the token the mount effect read from the URL
  lastOutcome,      \* how the last completed validation ended, and
                    \* isAuthenticated when it was started
  lastLogout,       \* how the request of the last completed logout ended
  vcalls,           \* validateSession invocations, in call order
  lcalls,           \* logout invocations, in call order
  loginCalls,       \* number of login() calls by descendants
  guardMounted,     \* a ProtectedRoute is rendered below the provider
  guardView,        \* what ProtectedRoute rendered last
  guardDeps,        \* dependency values of the guard's effect at its last run
  rerenders,        \* number of parent-caused re-renders of the guard
  redirects,        \* number of redirect actions of the guard
  onRedirectCalls,  \* number of onRedirect() invocations
  navs,             \* navigations performed (window.location.href = ...)
  redirectStates,   \* <<isLoading, isAuthenticated>> at each redirect action
  transitionsIn,    \* number of transitions into settled-unauthenticated
  navCount,         \* number of navigations performed
  guardCalls,       \* the calls of the guard effect's last acting run, in order
  lastNotified,     \* the state onAuthStateChange was last invoked with:
                    \* {} before the first invocation, {state} after it
  cookieReads,      \* number of getCookie calls made by the mount effect
  ctx,              \* context.tsx provider: user, session, error, isLoading
                    \* and the position of its mount-time validation
  hookState,        \* isLoading / isRefreshing and error state of each hook
  hcalls,           \* hook operations invoked, in call order
  hookNavs,         \* navigations made by hook operations, in order
  lastUtil,         \* the last direct call of a utility function
  utilCalls,        \* number of direct calls of utility functions
  sessionCache,     \* localStorage["signify_session_cache"]: {} or {entry}
  now,              \* Date.now(), in milliseconds
  cookieStore,      \* the browser's cookies for the page, as it holds them
  stateStore        \* sessionStorage["signifyid_state"]: {} or {value}

envVars   == <<browser, urlQuery, cookieJar, replaceStates, reloads>>
authVars  == <<isAuthenticated, isLoading, session>>
refVars   == <<isInitialized, isValidating>>
mountVars == <<mounted, reran, initBodyRuns, initToken>>
ghostVars == <<lastOutcome, lastLogout>>
callVars  == <<vcalls, lcalls, loginCalls>>
guardVars == <<guardMounted, guardView, guardDeps, rerenders, redirects, onRedirectCalls,
               navs, redirectStates, transitionsIn, navCount, guardCalls>>
hostVars  == <<lastNotified, cookieReads>>
hookVars  == <<ctx, hookState, hcalls, hookNavs>>
storeVars == <<sessionCache, now, cookieStore, stateStore>>
utilVars  == <<lastUtil, utilCalls, storeVars>>
providerVars == <<envVars, authVars, refVars, mountVars, ghostVars, callVars,
                  guardVars, hostVars>>
vars == <<envVars, authVars, refVars, mountVars, ghostVars, callVars, guardVars,
          hostVars, hookVars, utilVars>>

\* ------------------------------------------------------ utils/cookies.ts
SetCookie(b, jar, name, value) ==
  IF ~b THEN jar ELSE [jar EXCEPT ![name] = value]

GetCookie(b, jar, name) ==
  IF ~b THEN NULL ELSE jar[name]

DeleteCookie(b, jar, name) ==
  IF ~b THEN jar ELSE [jar EXCEPT ![name] = NULL]

\* ---------------------------------------------------------- utils/url.ts
SearchHas(q, name) == \E i \in 1..Len(q) : q[i][1] = name

\* URLSearchParams.get: the first value of the name, or null
SearchGet(q, name) ==
  IF SearchHas(q, name)
  THEN LET first == CHOOSE i \in 1..Len(q) :
                      /\ q[i][1] = name
                      /\ \A k \in 1..(i-1) : q[k][1] # name
       IN q[first][2]
  ELSE NULL

\* URLSearchParams.delete: drops every pair of the name
SearchDelete(q, name) ==
  LET Keep(p) == p[1] # name IN SelectSeq(q, Keep)

GetTokenFromUrl(b, q, paramName) ==
  IF ~b THEN NULL ELSE SearchGet(q, paramName)

\* (mutant: the pair is appended and existing pairs of the name are kept)
SearchSetAppends(q, name, value) == Append(q, <<name, value>>)

\* URLSearchParams.set: the first pair of the name takes the value and the
\* later ones are dropped; a pair is appended when the name is absent
SearchSet(q, name, value) ==
  IF SearchHas(q, name)
  THEN LET first == CHOOSE i \in 1..Len(q) :
                      /\ q[i][1] = name
                      /\ \A k \in 1..(i-1) : q[k][1] # name
       IN SubSeq(q, 1, first - 1) \o << <<name, value>> >>
            \o SearchDelete(SubSeq(q, first + 1, Len(q)), name)
  ELSE Append(q, <<name, value>>)

RECURSIVE CleanLoop(_, _, _)
CleanLoop(q, params, hasChanges) ==
  IF params = <<>>
  THEN [query |-> q, hasChanges |-> hasChanges]
  ELSE IF SearchHas(q, Head(params))
       THEN CleanLoop(SearchDelete(q, Head(params)), Tail(params), TRUE)
       ELSE CleanLoop(q, Tail(params), hasChanges)

\* (mutant: replaceState is called whether or not a parameter was removed)
CleanUrlParamsAlwaysReplace(b, q, params) ==
  IF ~b THEN [query |-> q, hasChanges |-> FALSE]
  ELSE [query |-> CleanLoop(q, params, FALSE).query, hasChanges |-> TRUE]

\* the query after cleanUrlParams, and whether replaceState is called
CleanUrlParams(b, q, params) ==
  IF ~b THEN [query |-> q, hasChanges |-> FALSE]
  ELSE CleanLoop(q, params, FALSE)

\* the login URL: the base with redirect set to the current full URL
\* (redirect: {} when the parameter is not set, {q} when set to the URL q)
BuildLoginUrl(b, loginUrl, q) ==
  IF ~b THEN [kind |-> "login", target |-> loginUrl, redirect |-> {}]
  ELSE [kind |-> "login", target |-> loginUrl, redirect |-> {q}]

\* buildLoginUrl(loginUrl, redirectUrl) on the page href: loginUrl itself,
\* or the URL of loginUrl with its redirect parameter set
\* (loginUrl: [url, query]; redirectUrl: a string, or NULL when omitted)
BuildLoginUrlTo(b, loginUrl, redirectUrl, href) ==
  IF ~b /\ ~Truthy(redirectUrl)
  THEN [kind |-> "loginUrl", url |-> loginUrl.url, query |-> loginUrl.query]
  ELSE LET redirect == IF Truthy(redirectUrl) THEN redirectUrl ELSE href IN
       [kind |-> "toString", url |-> loginUrl.url,
        query |-> SearchSet(loginUrl.query, "redirect", redirect)]

\* ------------------------------------------- utils/cookies on its text
\* Strings are sequences of characters.  The browser holds the cookies of
\* the page as a sequence of [name, value], oldest first, and
\* document.cookie reads as "name=value" items joined by "; ".
RECURSIVE Split(_, _)
\* String.prototype.split on a one-character separator
Split(str, ch) ==
  IF str = <<>> THEN << <<>> >>
  ELSE LET rest == Split(Tail(str), ch) IN
       IF Head(str) = ch THEN << <<>> >> \o rest
       ELSE << <<Head(str)>> \o Head(rest) >> \o Tail(rest)

RECURSIVE TrimStart(_)
TrimStart(str) ==
  IF str # <<>> /\ Head(str) = " " THEN TrimStart(Tail(str)) ELSE str

RECURSIVE TrimEnd(_)
TrimEnd(str) ==
  IF str # <<>> /\ str[Len(str)] = " "
  THEN TrimEnd(SubSeq(str, 1, Len(str) - 1)) ELSE str

\* String.prototype.trim
Trim(str) == TrimEnd(TrimStart(str))

\* the escape of a character encodeURIComponent does not keep
EncodeChar(c) ==
  CASE c = "=" -> <<"%", "3", "D">>
    [] c = ";" -> <<"%", "3", "B">>
    [] c = " " -> <<"%", "2", "0">>
    [] c = "%" -> <<"%", "2", "5">>
    [] OTHER   -> <<c>>

\* (mutant: the string is written as it is)
EncodeKeepsAll(str) == str

RECURSIVE EncodeURIComponent(_)
EncodeURIComponent(str) ==
  IF str = <<>> THEN <<>>
  ELSE EncodeChar(Head(str)) \o EncodeURIComponent(Tail(str))

\* the character of an escape; "URIError" stands for the exception
DecodeEscape(hex) ==
  CASE hex = <<"3", "D">> -> "="
    [] hex = <<"3", "B">> -> ";"
    [] hex = <<"2", "0">> -> " "
    [] hex = <<"2", "5">> -> "%"
    [] OTHER -> "URIError"

RECURSIVE DecodeURIComponent(_)
DecodeURIComponent(str) ==
  IF str = <<>> THEN <<>>
  ELSE IF Head(str) # "%"
  THEN <<Head(str)>> \o DecodeURIComponent(Tail(str))
  ELSE IF Len(str) < 3 THEN <<"URIError">>
  ELSE <<DecodeEscape(SubSeq(str, 2, 3))>>
         \o DecodeURIComponent(SubSeq(str, 4, Len(str)))

RECURSIVE JoinCookies(_)
JoinCookies(store) ==
  IF store = <<>> THEN <<>>
  ELSE Head(store).name \o <<"=">> \o Head(store).value
         \o (IF Len(store) > 1 THEN <<";", " ">> ELSE <<>>)
         \o JoinCookies(Tail(store))

\* reading document.cookie
DocumentCookie(store) == JoinCookies(store)

\* assigning document.cookie a string "pair; path=/; max-age=maxAge":
\* the pair is cut at its first "=", a max-age of 0 drops the cookie of
\* that name, and any other replaces its value in place or adds it
AssignDocumentCookie(store, pair, maxAge) ==
  LET parts == Split(pair, "=")
      cname == Trim(Head(parts))
      cut   == Len(Head(parts)) + 2
      cval  == Trim(SubSeq(pair, cut, Len(pair)))
      Named(c) == c.name = cname
      Other(c) == c.name # cname
  IN IF maxAge <= 0 THEN SelectSeq(store, Other)
     ELSE IF \E i \in 1..Len(store) : Named(store[i])
     THEN [i \in 1..Len(store) |->
             IF Named(store[i]) THEN [name |-> cname, value |-> cval]
             ELSE store[i]]
     ELSE Append(store, [name |-> cname, value |-> cval])

DefaultMaxAge == 86400

\* setCookie(name, value) on the cookies of the page
SetCookieText(b, store, name, value) ==
  IF ~b THEN store
  ELSE AssignDocumentCookie(store,
         EncodeURIComponent(name) \o <<"=">> \o EncodeURIComponent(value),
         DefaultMaxAge)

RECURSIVE GetCookieLoop(_, _)
\* the loop of getCookie over the items of document.cookie:
\* {} for null, {value} for a string
GetCookieLoop(cookies, encodedName) ==
  IF cookies = <<>> THEN {}
  ELSE LET parts       == Split(Trim(Head(cookies)), "=")
           cookieName  == parts[1]
           cookieValue == IF Len(parts) >= 2 THEN parts[2] ELSE <<>>
       IN IF cookieName = encodedName
          THEN {DecodeURIComponent(cookieValue)}
          ELSE GetCookieLoop(Tail(cookies), encodedName)

\* getCookie(name)
GetCookieText(b, store, name) ==
  IF ~b THEN {}
  ELSE GetCookieLoop(Split(DocumentCookie(store), ";"),
                     EncodeURIComponent(name))

\* deleteCookie(name)
DeleteCookieText(b, store, name) ==
  IF ~b THEN store
  ELSE AssignDocumentCookie(store, EncodeURIComponent(name) \o <<"=">>, 0)

\* hasCookie(name)
HasCookieText(b, store, name) == GetCookieText(b, store, name) # {}

\* ------------------------------------------------------ utils/storage
\* A localStorage item is its text: "" (empty), "garbage" (not JSON), or
\* "json" with the value JSON.parse returns for it.
NaN == -1

\* new Date(s).getTime(): the milliseconds of an ISO string, NaN otherwise
DateGetTime(s) ==
  CASE s = "1970-01-01T00:00:01.500Z" -> 1500
    [] s = "1970-01-01T00:00:02.000Z" -> 2000
    [] OTHER -> NaN

\* a > b on numbers: false when either is NaN
Greater(a, b) == a # NaN /\ b # NaN /\ a > b

\* the value of an item that is not JSON: never read
NoValue == [session |-> [valid |-> FALSE, expiresAt |-> NULL], cachedAt |-> 0]

\* JSON.stringify of { session, cachedAt }
JsonStringify(cached) == [text |-> "json", value |-> cached]

\* (mutant: the age is taken in whole seconds)
AgeWholeSeconds(t, cachedAt, maxAge) == (t - cachedAt) \div 1000 > maxAge

\* (Date.now() - cachedAt) / 1000 > maxAge
AgeExceeds(t, cachedAt, maxAge) == (t - cachedAt) > maxAge * 1000

\* cacheSession(session): the item after the call
CacheSession(b, item, x, t) ==
  IF ~b THEN item
  ELSE {JsonStringify([session |-> x, cachedAt |-> t])}

\* getCachedSession(maxAge): the session returned ({} for null) and
\* whether clearCachedSession was called
GetCachedSession(b, item, t, maxAge) ==
  IF ~b THEN [session |-> {}, cleared |-> FALSE]
  ELSE IF item = {} \/ (\E i \in item : i.text = "")
  THEN [session |-> {}, cleared |-> FALSE]
  ELSE LET stored == CHOOSE i \in item : TRUE IN
       IF stored.text # "json" THEN [session |-> {}, cleared |-> TRUE]
       ELSE LET cached == stored.value IN
            IF AgeExceeds(t, cached.cachedAt, maxAge)
            THEN [session |-> {}, cleared |-> TRUE]
            ELSE IF ~cached.session.valid
            THEN [session |-> {}, cleared |-> TRUE]
            ELSE IF /\ Truthy(cached.session.expiresAt)
                    /\ Greater(t, DateGetTime(cached.session.expiresAt))
            THEN [session |-> {}, cleared |-> TRUE]
            ELSE [session |-> {cached.session}, cleared |-> FALSE]

\* ----------------------------------------------- components/ProtectedRoute
\* (mutant: the unauthenticated branch is missing)
ProtectedRouteRenderNoAuthCheck(l, a) ==
  IF l THEN "loading" ELSE "children"

ProtectedRouteRender(l, a) ==
  IF l THEN "loading"
  ELSE IF ~a THEN "nothing"
  ELSE "children"

\* the guard's effect runs when one of its dependencies changed
EffectDepsChanged(old, new) == old # new

ShouldRedirect(l, a) == ~l /\ ~a

SettledUnauth(l, a) == ~l /\ ~a

\* (mutant: the login() call is not in an else branch)
GuardEffectCallsFallThrough(ru, cb) ==
  (IF cb # NULL THEN <<"onRedirect">> ELSE <<>>)
    \o (IF Truthy(ru) THEN <<"href">> ELSE <<>>) \o <<"login">>

\* the calls of the effect body once its condition holds, in order:
\* onRedirect() if given, then window.location.href = redirectUrl or login()
GuardEffectCalls(ru, cb) ==
  (IF cb # NULL THEN <<"onRedirect">> ELSE <<>>)
    \o (IF Truthy(ru) THEN <<"href">> ELSE <<"login">>)

\* the number of calls of one kind
CallsOf(calls, kind) ==
  Cardinality({i \in 1..Len(calls) : calls[i] = kind})

\* The guard re-renders with auth state (l, a) and props/identities
\* (lg, ru, cb); its effect then runs if a dependency changed.  q is the
\* query string of the page at that moment.
GuardCommit(l, a, lg, ru, cb, q) ==
  LET deps == <<l, a, lg, ru, cb>>
      fire == EffectDepsChanged(guardDeps, deps) /\ ShouldRedirect(l, a)
      calls == IF fire THEN GuardEffectCalls(ru, cb) ELSE <<>>
  IN
  /\ UNCHANGED guardMounted
  /\ guardView' = ProtectedRouteRender(l, a)
  /\ guardDeps' = deps
  /\ transitionsIn' =
       IF SettledUnauth(l, a) /\ ~SettledUnauth(isLoading, isAuthenticated)
       THEN transitionsIn + 1 ELSE transitionsIn
  /\ redirects' = IF fire THEN redirects + 1 ELSE redirects
  /\ guardCalls' = IF fire THEN calls ELSE guardCalls
  /\ onRedirectCalls' = onRedirectCalls + CallsOf(calls, "onRedirect")
  /\ redirectStates' =
       IF fire THEN redirectStates \cup {<<l, a>>} ELSE redirectStates
  /\ navs' =
       IF browser
       THEN navs
            \cup {[kind |-> "custom", target |-> ru, redirect |-> {}] :
                    i \in {k \in 1..Len(calls) : calls[k] = "href"}}
            \cup {BuildLoginUrl(browser, LoginUrl, q) :
                    i \in {k \in 1..Len(calls) : calls[k] = "login"}}
       ELSE navs
  /\ navCount' =
       IF browser
       THEN navCount + CallsOf(calls, "href") + CallsOf(calls, "login")
       ELSE navCount

\* a provider state write that the guard observes with unchanged props
AuthCommit(l, a, q) ==
  IF guardMounted
  THEN /\ GuardCommit(l, a, guardDeps[3], guardDeps[4], guardDeps[5], q)
       /\ UNCHANGED rerenders
  ELSE UNCHANGED guardVars

\* ------------------------------------------------------- SignifyProvider
\* (mutant: user is not cleared with the session)
UserOfKeepsUser(s) == IF s = {} THEN "u1" ELSE (CHOOSE d \in s : TRUE).user

\* authState.user: session?.user ?? null
UserOf(s) == IF s = {} THEN NULL ELSE (CHOOSE d \in s : TRUE).user

\* the memoized authState value of a render with state (a, l, s)
AuthStateOf(a, l, s) ==
  [isAuthenticated |-> a, isLoading |-> l, session |-> s, user |-> UserOf(s)]

\* (mutant: the notify effect does not test isLoading)
NotifyGuardAlways(l) == TRUE

\* `if (onAuthStateChange && !isLoading)` with a registered callback
NotifyGuard(l) == ~l

\* The notify effect after a state write that leaves the provider with
\* state (a, l, s).  rerender: the write changed a state value (React
\* skips the render otherwise), so authState is a new object and the
\* effect runs.  The effect is flushed before the next render and sees
\* the authState of its own render, so it is part of the write step.
NotifyCommit(a, l, s, rerender) ==
  /\ lastNotified' =
       IF rerender /\ NotifyGuard(l) THEN {AuthStateOf(a, l, s)} ELSE lastNotified

ActiveV == {"fetch", "json", "setAuth", "setSession", "finally"}
WritingV == {"setAuth", "setSession", "finally"}
WritingL == {"setAuth", "setSession"}

\* a continuation is between two of its synchronous state writes
Busy ==
  \/ \E i \in 1..Len(vcalls) : vcalls[i].pc \in WritingV
  \/ \E j \in 1..Len(lcalls) : lcalls[j].pc \in WritingL

\* (mutant: no in-flight guard)
ValidateGuardOff(validating) == FALSE

\* the in-flight guard of validateSession: TRUE when the call is skipped
ValidateGuard(validating) == validating

\* (mutant: the guard is inside the try block, so finally clears isLoading)
IsLoadingAfterSkipCleared(l) == FALSE

\* isLoading after a call that the in-flight guard rejected: not written
IsLoadingAfterSkip(l) == l

\* validateSession(tokenOverride) up to its first await, called with the
\* page query q and the stored credential c; the request is sent before
\* the await, with the cookies of that moment (credentials: "include")
ValidateSessionCall(tokenOverride, by, q, c) ==
  IF ValidateGuard(isValidating)
  THEN /\ vcalls' = Append(vcalls,
                      [pc |-> "skipped", body |-> NULL, outcome |-> "none",
                       by |-> by, preAuth |-> FALSE,
                       sent |-> [cookie |-> NULL, query |-> <<>>]])
       /\ isLoading' = IsLoadingAfterSkip(isLoading)
       /\ UNCHANGED <<isValidating, guardVars, lastNotified>>
  ELSE /\ isValidating' = TRUE
       /\ isLoading' = TRUE
       /\ vcalls' = Append(vcalls,
                      [pc |-> "fetch",
                       body |-> IF Truthy(tokenOverride)
                                THEN tokenOverride ELSE NULL,
                       outcome |-> "none", by |-> by,
                       preAuth |-> isAuthenticated,
                       sent |-> [cookie |-> c, query |-> q]])
       /\ AuthCommit(TRUE, isAuthenticated, q)
       /\ NotifyCommit(isAuthenticated, TRUE, session, ~isLoading)

StartTime == 1000   \* Date.now() when the page loads
TickMs    == 500    \* granularity of the clock

\* no utility function has been called directly
NoUtilCall ==
  /\ lastUtil = [op |-> "none"]
  /\ utilCalls = 0

\* nothing is cached in localStorage
StoreInit ==
  /\ sessionCache = {}
  /\ now = StartTime
  /\ cookieStore = <<>>
  /\ stateStore = {}

UtilInit == NoUtilCall /\ StoreInit

\* context.tsx provider after its first render: the useState initial values,
\* with validateSession() of the mount effect awaiting its response
MountedContext ==
  [user |-> NULL, session |-> {}, error |-> {}, isLoading |-> TRUE,
   validation |-> [pc |-> "validate", outcome |-> "none", profile |-> "none"]]

\* context.tsx provider once the mount-time validation found no session
SettledContext ==
  [user |-> NULL, session |-> {}, error |-> {}, isLoading |-> FALSE,
   validation |-> [pc |-> "done", outcome |-> "invalid", profile |-> "none"]]

\* no hook operation has been invoked
HooksIdle ==
  /\ hookState = [h \in {"auth", "logout", "refresh"} |->
                    [loading |-> FALSE, error |-> {}]]
  /\ hcalls = <<>>
  /\ hookNavs = <<>>

\* context.tsx provider and hooks on a page without a session
HookInit ==
  /\ ctx = SettledContext
  /\ HooksIdle

\* SignifyProvider.tsx before its mount effect has run
ProviderIdle ==
  /\ replaceStates = 0
  /\ reloads = 0
  /\ isAuthenticated = FALSE
  /\ isLoading = TRUE
  /\ session = {}
  /\ isInitialized = FALSE
  /\ isValidating = FALSE
  /\ mounted = FALSE
  /\ reran = FALSE
  /\ initBodyRuns = 0
  /\ initToken = NULL
  /\ lastOutcome = <<"none", FALSE>>
  /\ lastLogout = "none"
  /\ vcalls = <<>>
  /\ lcalls = <<>>
  /\ loginCalls = 0
  /\ guardMounted = FALSE
  /\ guardView = "unmounted"
  /\ guardDeps = <<TRUE, FALSE, "login1", NULL, NULL>>
  /\ rerenders = 0
  /\ redirects = 0
  /\ onRedirectCalls = 0
  /\ navs = {}
  /\ redirectStates = {}
  /\ guardCalls = <<>>
  /\ transitionsIn = 0
  /\ navCount = 0
  /\ lastNotified = {}
  /\ cookieReads = 0

Init ==
  /\ browser \in BOOLEAN
  /\ urlQuery \in (IF browser THEN InitialQueries ELSE {<<>>})
  /\ cookieJar \in [{CookieName} -> (IF browser THEN InitialCookies ELSE {NULL})]
  /\ ProviderIdle
  /\ HookInit
  /\ UtilInit

\* (mutant: the initialization latch is not consulted)
MountGuardNoLatch(b, initialized) == ~b

\* the mount effect returns before its body when this holds
MountGuard(b, initialized) == ~b \/ initialized

\* (mutant: the stored credential is not tested before validating)
HasExistingTokenAlways(existingToken) == TRUE

\* `if (existingToken)` of the mount effect
HasExistingToken(existingToken) == Truthy(existingToken)

\* (mutant: the token is validated before it is stored and stripped)
MountIssueEnvBefore(before, after) == before

\* the document state in which the mount effect calls validateSession(token):
\* setCookie and cleanUrlParams come first
MountIssueEnv(before, after) == after

\* (mutant: the stored credential is passed as the token override)
MountFallbackOverrideStored(existingToken) == existingToken

\* the argument of the validateSession() call of the stored-credential
\* branch: none
MountFallbackOverride(existingToken) == NULL

\* (mutant: the branch without a credential leaves isLoading as it is)
IsLoadingNoCredentialKept(l) == l

\* isLoading after the branch of the mount effect that finds no credential
IsLoadingNoCredential(l) == FALSE

\* useEffect "Handle token from URL on mount": the first run, a strict-mode
\* second run, or a re-run after one of its dependencies changed
MountEffect ==
  /\ ~Busy
  /\ mounted' = TRUE
  /\ reran' = mounted
  /\ UNCHANGED <<browser, reloads, isAuthenticated, session, lcalls, loginCalls,
                 ghostVars>>
  /\ IF MountGuard(browser, isInitialized)
     THEN UNCHANGED <<urlQuery, cookieJar, replaceStates, isLoading, refVars,
                      initBodyRuns, initToken, vcalls, guardVars, hostVars>>
     ELSE
       LET token == GetTokenFromUrl(browser, urlQuery, TokenParam) IN
       /\ isInitialized' = TRUE
       /\ initBodyRuns' = initBodyRuns + 1
       /\ initToken' = token
       /\ IF Truthy(token)
          THEN LET cleaned == CleanUrlParams(browser, urlQuery, <<TokenParam>>)
                   stored  == SetCookie(browser, cookieJar, CookieName, token)
                   env     == MountIssueEnv(
                                [cookie |-> cookieJar[CookieName],
                                 query  |-> urlQuery],
                                [cookie |-> stored[CookieName],
                                 query  |-> cleaned.query])
               IN
               /\ cookieJar' = stored
               /\ urlQuery' = cleaned.query
               /\ replaceStates' =
                    IF cleaned.hasChanges THEN replaceStates + 1 ELSE replaceStates
               /\ ValidateSessionCall(token, "mount", env.query, env.cookie)
               /\ UNCHANGED cookieReads
          ELSE /\ UNCHANGED <<urlQuery, cookieJar, replaceStates>>
               /\ cookieReads' = cookieReads + 1
               /\ IF HasExistingToken(GetCookie(browser, cookieJar, CookieName))
                  THEN ValidateSessionCall(
                         MountFallbackOverride(
                           GetCookie(browser, cookieJar, CookieName)),
                         "mount", urlQuery, cookieJar[CookieName])
                  ELSE /\ isLoading' = IsLoadingNoCredential(isLoading)
                       /\ AuthCommit(IsLoadingNoCredential(isLoading),
                                     isAuthenticated, urlQuery)
                       /\ NotifyCommit(isAuthenticated,
                                       IsLoadingNoCredential(isLoading), session,
                                       isLoading)
                       /\ UNCHANGED <<isValidating, vcalls>>
  /\ UNCHANGED <<hookVars, utilVars>>

\* authState.validateSession(): a descendant's manual revalidation
CallValidateSession ==
  /\ ~Busy
  /\ Cardinality({i \in 1..Len(vcalls) : vcalls[i].by = "descendant"})
       < MaxValidateCalls
  /\ ValidateSessionCall(NULL, "descendant", urlQuery, cookieJar[CookieName])
  /\ UNCHANGED <<envVars, isAuthenticated, session, isInitialized, mountVars,
                 ghostVars, lcalls, loginCalls, cookieReads>>
  /\ UNCHANGED <<hookVars, utilVars>>

\* (mutant: a rejected request leaves the function past its finally block)
AfterValidateFetchNoFinally(r) ==
  IF r = "ok" THEN "json" ELSE IF r = "reject" THEN "threw" ELSE "setAuth"

\* the pc after `await fetch(...)` settles: a rejection and a non-success
\* status both reach the catch block
AfterValidateFetch(r) == IF r = "ok" THEN "json" ELSE "setAuth"

ValidateFetchSettles(i, r) ==
  /\ ~Busy
  /\ mounted
  /\ vcalls[i].pc = "fetch"
  /\ vcalls' = [vcalls EXCEPT ![i].pc = AfterValidateFetch(r),
                              ![i].outcome = r]
  /\ UNCHANGED <<envVars, authVars, refVars, mountVars, ghostVars, lcalls,
                 loginCalls, guardVars, hostVars>>
  /\ UNCHANGED <<hookVars, utilVars>>

\* (mutant: a rejection of response.json() is not caught)
AfterValidateJsonUncaught(o) == IF o = "badjson" THEN "threw" ELSE "setAuth"

\* the pc after `await response.json()` settles: a rejection reaches the
\* catch block, a parsed body the test of data.valid
AfterValidateJson(o) == "setAuth"

\* `await response.json()` settles with a parsed body or a rejection
ValidateJsonSettles(i, o) ==
  /\ ~Busy
  /\ vcalls[i].pc = "json"
  /\ vcalls' = [vcalls EXCEPT ![i].pc = AfterValidateJson(o), ![i].outcome = o]
  /\ UNCHANGED <<envVars, authVars, refVars, mountVars, ghostVars, lcalls,
                 loginCalls, guardVars, hostVars>>
  /\ UNCHANGED <<hookVars, utilVars>>

\* the value setIsAuthenticated receives for outcome o
AuthAfter(o) ==
  IF o \in {"invalid", "valid", "valid_nouser"}
  THEN ResponseData(o).valid
  ELSE FALSE

\* (mutant: the catch block does not clear the session)
SessionAfterKeepOnError(o, cur) ==
  IF o \in {"invalid", "valid", "valid_nouser"}
  THEN IF ResponseData(o).valid THEN {ResponseData(o)} ELSE {}
  ELSE cur

\* (mutant: a parsed response is adopted whatever its valid field)
SessionAfterAdoptAnyResponse(o, cur) ==
  IF o \in {"invalid", "valid", "valid_nouser"}
  THEN {ResponseData(o)}
  ELSE {}

\* (mutant: only valid and user of the response are adopted)
SessionAfterValidAndUserOnly(o, cur) ==
  IF o \in {"invalid", "valid", "valid_nouser"} /\ ResponseData(o).valid
  THEN {[valid |-> TRUE, user |-> ResponseData(o).user]}
  ELSE {}

\* the value setSession receives for outcome o (cur: the session so far)
SessionAfter(o, cur) ==
  IF o \in {"invalid", "valid", "valid_nouser"} /\ ResponseData(o).valid
  THEN {ResponseData(o)}
  ELSE {}

\* setIsAuthenticated(...) of the try or the catch block
ValidateSetAuth(i) ==
  /\ vcalls[i].pc = "setAuth"
  /\ isAuthenticated' = AuthAfter(vcalls[i].outcome)
  /\ vcalls' = [vcalls EXCEPT ![i].pc = "setSession"]
  /\ AuthCommit(isLoading, isAuthenticated', urlQuery)
  /\ NotifyCommit(isAuthenticated', isLoading, session,
                  isAuthenticated' # isAuthenticated)
  /\ UNCHANGED <<envVars, isLoading, session, refVars, mountVars, ghostVars,
                 lcalls, loginCalls, cookieReads>>
  /\ UNCHANGED <<hookVars, utilVars>>

\* (mutant: a validation that did not find a valid session deletes the
\* stored credential)
CredentialAfterValidationCleared(jar, outcome) ==
  IF outcome \in {"valid", "valid_nouser"} THEN jar
  ELSE [jar EXCEPT ![CookieName] = NULL]

\* the stored credential after the try/catch of validateSession: no branch
\* calls setCookie or deleteCookie
CredentialAfterValidation(jar, outcome) == jar

\* setSession(...) of the try or the catch block
ValidateSetSession(i) ==
  /\ vcalls[i].pc = "setSession"
  /\ session' = SessionAfter(vcalls[i].outcome, session)
  /\ cookieJar' = CredentialAfterValidation(cookieJar, vcalls[i].outcome)
  /\ vcalls' = [vcalls EXCEPT ![i].pc = "finally"]
  /\ NotifyCommit(isAuthenticated, isLoading, session',
                  session' # {} \/ session # {})
  /\ UNCHANGED <<browser, urlQuery, replaceStates, reloads, isAuthenticated,
                 isLoading, refVars, mountVars, ghostVars, lcalls, loginCalls,
                 guardVars, cookieReads>>
  /\ UNCHANGED <<hookVars, utilVars>>

\* finally { setIsLoading(false); isValidating.current = false }
ValidateFinally(i) ==
  /\ vcalls[i].pc = "finally"
  /\ isLoading' = FALSE
  /\ isValidating' = FALSE
  /\ vcalls' = [vcalls EXCEPT ![i].pc = "done", ![i].outcome = "none",
                              ![i].preAuth = FALSE,
                              ![i].sent = [cookie |-> NULL, query |-> <<>>]]
  /\ lcalls' = [j \in 1..Len(lcalls) |->
                  IF lcalls[j].during = i /\ lcalls[j].pc = "done"
                  THEN [lcalls[j] EXCEPT !.during = 0] ELSE lcalls[j]]
  /\ lastOutcome' = <<vcalls[i].outcome, vcalls[i].preAuth>>
  /\ UNCHANGED lastLogout
  /\ AuthCommit(FALSE, isAuthenticated, urlQuery)
  /\ NotifyCommit(isAuthenticated, FALSE, session, isLoading)
  /\ UNCHANGED <<envVars, isAuthenticated, session, isInitialized, mountVars,
                 loginCalls, cookieReads>>
  /\ UNCHANGED <<hookVars, utilVars>>

\* (mutant: login() does not test isBrowser())
LoginNavigatesAlways(b) == TRUE

\* login() goes on to navigate unless `!isBrowser()` makes it return
LoginNavigates(b) == b

\* login(): navigate to the login URL, in a browser only
CallLogin ==
  /\ ~Busy
  /\ loginCalls < MaxLoginCalls
  /\ loginCalls' = loginCalls + 1
  /\ navs' = IF LoginNavigates(browser)
             THEN navs \cup {BuildLoginUrl(browser, LoginUrl, urlQuery)}
             ELSE navs
  /\ navCount' = IF LoginNavigates(browser) THEN navCount + 1 ELSE navCount
  /\ UNCHANGED <<envVars, authVars, refVars, mountVars, ghostVars, vcalls, lcalls,
                 guardMounted, guardView, guardDeps, rerenders, redirects,
                 onRedirectCalls, redirectStates, transitionsIn, guardCalls,
                 hostVars>>
  /\ UNCHANGED <<hookVars, utilVars>>

\* the validateSession call that is between its guard and its finally
ActiveValidation ==
  IF \E i \in 1..Len(vcalls) : vcalls[i].pc \in ActiveV
  THEN CHOOSE i \in 1..Len(vcalls) : vcalls[i].pc \in ActiveV
  ELSE 0

\* logout() up to its await: one request to the logout endpoint
CallLogout ==
  /\ ~Busy
  /\ Len(lcalls) < MaxLogoutCalls
  /\ lcalls' = Append(lcalls, [pc |-> "fetch", outcome |-> "none",
                               requests |-> 1, during |-> ActiveValidation])
  /\ UNCHANGED <<envVars, authVars, refVars, mountVars, ghostVars, vcalls,
                 loginCalls, guardVars, hostVars>>
  /\ UNCHANGED <<hookVars, utilVars>>

\* (mutant: no try/catch around the logout request)
AfterLogoutFetchNoCatch(r) == IF r = "reject" THEN "threw" ELSE "setAuth"

\* the pc after the logout request settles: the catch block absorbs a
\* rejection, and a non-success status is not inspected
AfterLogoutFetch(r) == "setAuth"

LogoutFetchSettles(j, r) ==
  /\ ~Busy
  /\ mounted
  /\ lcalls[j].pc = "fetch"
  /\ lcalls' = [lcalls EXCEPT ![j].pc = AfterLogoutFetch(r), ![j].outcome = r]
  /\ UNCHANGED <<envVars, authVars, refVars, mountVars, ghostVars, vcalls,
                 loginCalls, guardVars, hostVars>>
  /\ UNCHANGED <<hookVars, utilVars>>

\* setIsAuthenticated(false)
LogoutSetAuth(j) ==
  /\ lcalls[j].pc = "setAuth"
  /\ isAuthenticated' = FALSE
  /\ lcalls' = [lcalls EXCEPT ![j].pc = "setSession"]
  /\ AuthCommit(isLoading, FALSE, urlQuery)
  /\ NotifyCommit(FALSE, isLoading, session, isAuthenticated)
  /\ UNCHANGED <<envVars, isLoading, session, refVars, mountVars, ghostVars,
                 vcalls, loginCalls, cookieReads>>
  /\ UNCHANGED <<hookVars, utilVars>>

\* the validation that was running when logout j was called has ended
BothSettled(j) ==
  lcalls[j].during # 0 /\ vcalls[lcalls[j].during].pc = "done"

\* whether logout calls reloadPage()
LogoutReloads(b) == b

\* setSession(null); deleteCookie(config.cookieName); reloadPage()
LogoutSetSession(j) ==
  /\ lcalls[j].pc = "setSession"
  /\ session' = {}
  /\ cookieJar' = DeleteCookie(browser, cookieJar, CookieName)
  /\ reloads' = IF LogoutReloads(browser) THEN reloads + 1 ELSE reloads
  /\ lcalls' = [lcalls EXCEPT ![j].pc = "done", ![j].outcome = "none",
                              ![j].during = IF BothSettled(j) THEN 0 ELSE @]
  /\ lastLogout' = lcalls[j].outcome
  /\ NotifyCommit(isAuthenticated, isLoading, {}, session # {})
  /\ UNCHANGED <<browser, urlQuery, replaceStates, isAuthenticated, isLoading,
                 refVars, mountVars, lastOutcome, vcalls, loginCalls, guardVars,
                 cookieReads>>
  /\ UNCHANGED <<hookVars, utilVars>>

\* the guard's parent re-renders it: new props, or a new login identity
\* from the provider
GuardRerender(lg, ru, cb) ==
  /\ ~Busy
  /\ guardMounted
  /\ rerenders < MaxRerenders
  /\ rerenders' = rerenders + 1
  /\ GuardCommit(isLoading, isAuthenticated, lg, ru, cb, urlQuery)
  /\ UNCHANGED <<envVars, authVars, refVars, mountVars, ghostVars, callVars,
                 hostVars>>
  /\ UNCHANGED <<hookVars, utilVars>>

Next ==
  \/ MountEffect
  \/ CallValidateSession
  \/ \E i \in 1..Len(vcalls) : \E r \in FetchResults : ValidateFetchSettles(i, r)
  \/ \E i \in 1..Len(vcalls) : \E o \in JsonResults : ValidateJsonSettles(i, o)
  \/ \E i \in 1..Len(vcalls) : ValidateSetAuth(i)
  \/ \E i \in 1..Len(vcalls) : ValidateSetSession(i)
  \/ \E i \in 1..Len(vcalls) : ValidateFinally(i)
  \/ CallLogout
  \/ \E j \in 1..Len(lcalls) : \E r \in LogoutResults : LogoutFetchSettles(j, r)
  \/ \E j \in 1..Len(lcalls) : LogoutSetAuth(j)
  \/ \E j \in 1..Len(lcalls) : LogoutSetSession(j)

\* the provider without a guard below it
Spec == Init /\ [][Next]_vars

\* the guard under re-renders by its parent
InitGuard ==
  /\ browser = TRUE
  /\ urlQuery \in {<<>>, << <<"page", "2">>, <<"token", "t1">> >>,
                    << <<"token", "">>, <<"token", "t1">> >>}
  /\ cookieJar \in [{CookieName} -> {NULL}]
  /\ replaceStates = 0
  /\ reloads = 0
  /\ isAuthenticated = FALSE
  /\ isLoading = TRUE
  /\ session = {}
  /\ isInitialized = FALSE
  /\ isValidating = FALSE
  /\ mounted = FALSE
  /\ reran = FALSE
  /\ initBodyRuns = 0
  /\ initToken = NULL
  /\ lastOutcome = <<"none", FALSE>>
  /\ lastLogout = "none"
  /\ vcalls = <<>>
  /\ lcalls = <<>>
  /\ loginCalls = 0
  /\ guardMounted = TRUE
  /\ guardView = ProtectedRouteRender(TRUE, FALSE)
  /\ guardDeps = <<TRUE, FALSE, "login1", NULL, "cb1">>
  /\ rerenders = 0
  /\ redirects = 0
  /\ onRedirectCalls = 0
  /\ navs = {}
  /\ redirectStates = {}
  /\ guardCalls = <<>>
  /\ transitionsIn = 0
  /\ navCount = 0
  /\ lastNotified = {}
  /\ cookieReads = 0
  /\ HookInit
  /\ UtilInit

NextGuard ==
  \/ MountEffect
  \/ \E i \in 1..Len(vcalls) : \E r \in FetchResults : ValidateFetchSettles(i, r)
  \/ \E i \in 1..Len(vcalls) : \E o \in JsonResults : ValidateJsonSettles(i, o)
  \/ \E i \in 1..Len(vcalls) : ValidateSetAuth(i)
  \/ \E i \in 1..Len(vcalls) : ValidateSetSession(i)
  \/ \E i \in 1..Len(vcalls) : ValidateFinally(i)
  \/ CallLogout
  \/ \E j \in 1..Len(lcalls) : \E r \in LogoutResults : LogoutFetchSettles(j, r)
  \/ \E j \in 1..Len(lcalls) : LogoutSetAuth(j)
  \/ \E j \in 1..Len(lcalls) : LogoutSetSession(j)
  \/ \E lg \in LoginIds : \E ru \in RedirectUrls : \E cb \in OnRedirectIds :
       GuardRerender(lg, ru, cb)

GuardSpec == InitGuard /\ [][NextGuard]_vars

\* login() calls by descendants around the mount-time validation
NextLogin ==
  \/ MountEffect
  \/ \E i \in 1..Len(vcalls) : \E r \in FetchResults : ValidateFetchSettles(i, r)
  \/ \E i \in 1..Len(vcalls) : \E o \in JsonResults : ValidateJsonSettles(i, o)
  \/ \E i \in 1..Len(vcalls) : ValidateSetAuth(i)
  \/ \E i \in 1..Len(vcalls) : ValidateSetSession(i)
  \/ \E i \in 1..Len(vcalls) : ValidateFinally(i)
  \/ CallLogin

LoginSpec == Init /\ [][NextLogin]_vars

\* initialize and validateSession() calls by descendants
NextValidate ==
  \/ MountEffect
  \/ CallValidateSession
  \/ \E i \in 1..Len(vcalls) : \E r \in FetchResults : ValidateFetchSettles(i, r)
  \/ \E i \in 1..Len(vcalls) : \E o \in JsonResults : ValidateJsonSettles(i, o)
  \/ \E i \in 1..Len(vcalls) : ValidateSetAuth(i)
  \/ \E i \in 1..Len(vcalls) : ValidateSetSession(i)
  \/ \E i \in 1..Len(vcalls) : ValidateFinally(i)

\* initialize, validateSession() and login() calls by descendants
NextStable ==
  \/ NextValidate
  \/ CallLogin

StableSpec == Init /\ [][NextStable]_vars

\* Scheduling: React flushes the effects of a mounted tree, every request
\* settles, a pending response.json() settles, and a continuation that has
\* started runs to its end.
Fairness ==
  /\ WF_vars(MountEffect)
  /\ WF_vars(\E i \in 1..Len(vcalls) : \E r \in FetchResults :
               ValidateFetchSettles(i, r))
  /\ WF_vars(\E i \in 1..Len(vcalls) : \E o \in JsonResults :
               ValidateJsonSettles(i, o))
  /\ WF_vars(\E i \in 1..Len(vcalls) : ValidateSetAuth(i))
  /\ WF_vars(\E i \in 1..Len(vcalls) : ValidateSetSession(i))
  /\ WF_vars(\E i \in 1..Len(vcalls) : ValidateFinally(i))

\* validations under fair scheduling
FairSpec == Init /\ [][NextValidate]_vars /\ Fairness

\* ------------------------------------------------ api-client.ts, hooks
\* The hooks work on the provider of context.tsx (user, session, error).
\* An error state is {} for null and {e} for the error object e.
\* An operation is split at its awaits of the API client; each continuation
\* is one step.

\* how a request of the API client may end: success, a non-success status
\* with or without an error code in its body, or a rejection (network
\* failure, unparseable body)
ApiResults == {"ok", "status_code", "status_nocode", "reject"}

\* the fallback code and message of each throwing API client method
ApiDefaultCode(method) ==
  CASE method = "login"        -> "LOGIN_FAILED"
    [] method = "getMe"        -> "USER_FETCH_FAILED"
    [] method = "logout"       -> "LOGOUT_FAILED"
    [] method = "exchangeCode" -> "CALLBACK_FAILED"

ApiDefaultMessage(method) ==
  CASE method = "login"        -> "Login failed"
    [] method = "getMe"        -> "Failed to fetch user"
    [] method = "logout"       -> "Logout failed"
    [] method = "exchangeCode" -> "Callback processing failed"

\* what a failing API client method throws: a SignifyAuthError (auth) built
\* from the response body, or the error of fetch / response.json()
ApiThrown(method, r) ==
  CASE r = "status_code" ->
         [auth |-> TRUE, code |-> "server_code", message |-> "server_description"]
    [] r = "status_nocode" ->
         [auth |-> TRUE, code |-> ApiDefaultCode(method),
          message |-> ApiDefaultMessage(method)]
    [] OTHER ->
         [auth |-> FALSE, code |-> NULL, message |-> "Failed to fetch"]

\* apiClient.refreshToken(): never throws, returns a TokenRefreshResult
RefreshResults == {"ok", "ok_notoken", "status_code", "status_nocode", "reject"}

RefreshResult(r) ==
  CASE r = "ok" ->
         [success |-> TRUE, accessToken |-> "at2", expiresAt |-> "e2",
          error |-> {}]
    [] r = "ok_notoken" ->
         [success |-> TRUE, accessToken |-> NULL, expiresAt |-> "e2",
          error |-> {}]
    [] r = "status_code" ->
         [success |-> FALSE, accessToken |-> NULL, expiresAt |-> NULL,
          error |-> {[code |-> "server_code", message |-> "server_description"]}]
    [] r = "status_nocode" ->
         [success |-> FALSE, accessToken |-> NULL, expiresAt |-> NULL,
          error |-> {[code |-> "REFRESH_FAILED",
                      message |-> "Token refresh failed"]}]
    [] OTHER ->
         [success |-> FALSE, accessToken |-> NULL, expiresAt |-> NULL,
          error |-> {[code |-> "NETWORK_ERROR",
                      message |-> "Failed to refresh token"]}]

\* the session built from a LoginResponse
LoginSession ==
  [sessionId |-> "sid1", accessToken |-> "at1", refreshToken |-> "rt1",
   expiresAt |-> "e1"]

\* the error object a catch block of login, handleCallback or logout builds
HookDefaultError(op) ==
  CASE op = "login"    -> [code |-> "LOGIN_ERROR", message |-> "Login failed"]
    [] op = "callback" -> [code |-> "CALLBACK_ERROR",
                           message |-> "Callback processing failed"]
    [] op = "logout"   -> [code |-> "LOGOUT_ERROR", message |-> "Logout failed"]

HookError(op, err) ==
  IF err.auth THEN [code |-> err.code, message |-> err.message]
  ELSE HookDefaultError(op)

\* (mutant: the catch block does not re-throw)
HookCatchSwallow(op, err) ==
  [error |-> HookError(op, err), result |-> "resolved"]

\* the catch block of login, handleCallback or logout: the error it records
\* and how the promise of the operation ends
HookCatch(op, err) ==
  [error |-> HookError(op, err), result |-> "threw"]

\* the hook whose state an operation writes
HookOf(op) ==
  CASE op \in {"login", "callback"} -> "auth"
    [] op = "logout"                -> "logout"
    [] op = "refresh"               -> "refresh"

NewHookCall(op, pc) ==
  [op |-> op, pc |-> pc, result |-> "pending", failed |-> FALSE,
   snap |-> {}, redirect |-> FALSE]

\* catch and finally of login / handleCallback for call k and thrown error err
AuthHookCatch(k, err) ==
  LET c == HookCatch(hcalls[k].op, err) IN
  /\ hookState' = [hookState EXCEPT !["auth"] =
                     [loading |-> FALSE, error |-> {c.error}]]
  /\ ctx' = [ctx EXCEPT !.error = {c.error}]
  /\ hcalls' = [hcalls EXCEPT ![k].pc = "done", ![k].result = c.result,
                              ![k].failed = TRUE]
  /\ UNCHANGED hookNavs

\* useClientAuth.login(clientSecret?) up to its first await
UseClientAuthLogin(secret) ==
  /\ Len(hcalls) < MaxHookCalls
  /\ IF secret
     THEN /\ hookState' = [hookState EXCEPT !["auth"] =
                             [loading |-> TRUE, error |-> {}]]
          /\ hcalls' = Append(hcalls, NewHookCall("login", "login"))
          /\ UNCHANGED <<ctx, hookNavs>>
     ELSE /\ hookState' = [hookState EXCEPT !["auth"] =
                             [loading |-> FALSE, error |-> {}]]
          /\ hookNavs' = Append(hookNavs, "/oauth/authorize")
          /\ hcalls' = Append(hcalls, [NewHookCall("login", "done")
                                         EXCEPT !.result = "resolved"])
          /\ UNCHANGED ctx
  /\ UNCHANGED <<providerVars, utilVars>>

\* apiClient.login settles; redirect: the response carries a redirect_uri
UseClientAuthLoginSettles(k, r, redirect) ==
  /\ hcalls[k].pc = "login"
  /\ IF r = "ok"
     THEN /\ ctx' = [ctx EXCEPT !.session = {LoginSession}]
          /\ hcalls' = [hcalls EXCEPT ![k].pc = "loginGetMe",
                                      ![k].redirect = redirect]
          /\ UNCHANGED <<hookState, hookNavs>>
     ELSE AuthHookCatch(k, ApiThrown("login", r))
  /\ UNCHANGED <<providerVars, utilVars>>

\* apiClient.getMe of login settles: a failure is swallowed
UseClientAuthLoginGetMeSettles(k, r) ==
  /\ hcalls[k].pc = "loginGetMe"
  /\ ctx' = IF r = "ok" THEN [ctx EXCEPT !.user = "u1"] ELSE ctx
  /\ hookNavs' = IF hcalls[k].redirect
                 THEN Append(hookNavs, "redirect_uri") ELSE hookNavs
  /\ hookState' = [hookState EXCEPT !["auth"].loading = FALSE]
  /\ hcalls' = [hcalls EXCEPT ![k].pc = "done", ![k].result = "resolved",
                              ![k].failed = (r # "ok"),
                              ![k].redirect = FALSE]
  /\ UNCHANGED <<providerVars, utilVars>>

\* query strings of the page handleCallback() runs on: no parameters, a
\* code with its state, a provider error, an empty error next to a code
CallbackQueries ==
  { <<>>,
    << <<"code", "c1">>, <<"state", "s1">> >>,
    << <<"error", "access_denied">> >>,
    << <<"error", "">>, <<"code", "c1">> >> }

\* the SignifyAuthError handleCallback() throws before any request for the
\* query q, or none: `if (errorParam)` then `if (!code)`
CallbackRejection(q) ==
  IF Truthy(SearchGet(q, "error"))
  THEN {[auth |-> TRUE, code |-> SearchGet(q, "error"),
         message |-> IF Truthy(SearchGet(q, "error_description"))
                     THEN SearchGet(q, "error_description")
                     ELSE "OAuth error"]}
  ELSE IF ~Truthy(SearchGet(q, "code"))
       THEN {[auth |-> TRUE, code |-> "MISSING_CODE",
              message |-> "Authorization code not found"]}
       ELSE {}

\* useClientAuth.handleCallback() up to its first await; snap keeps the
\* session and user of the moment of the call
HandleCallback ==
  LET before == {[session |-> ctx.session, user |-> ctx.user]} IN
  /\ Len(hcalls) < MaxHookCalls
  /\ IF CallbackRejection(urlQuery) = {}
     THEN /\ hookState' = [hookState EXCEPT !["auth"] =
                             [loading |-> TRUE, error |-> {}]]
          /\ hcalls' = Append(hcalls, [NewHookCall("callback", "exchange")
                                         EXCEPT !.snap = before])
          /\ UNCHANGED <<ctx, hookNavs>>
     ELSE LET err == CHOOSE e \in CallbackRejection(urlQuery) : TRUE
              c == HookCatch("callback", err)
          IN
          /\ hookState' = [hookState EXCEPT !["auth"] =
                             [loading |-> FALSE, error |-> {c.error}]]
          /\ ctx' = [ctx EXCEPT !.error = {c.error}]
          /\ hcalls' = Append(hcalls, [NewHookCall("callback", "done")
                                         EXCEPT !.result = c.result,
                                                !.failed = TRUE,
                                                !.snap = before])
          /\ UNCHANGED hookNavs
  /\ UNCHANGED <<providerVars, utilVars>>

\* apiClient.exchangeCode settles
HandleCallbackExchangeSettles(k, r) ==
  /\ hcalls[k].pc = "exchange"
  /\ IF r = "ok"
     THEN /\ ctx' = [ctx EXCEPT !.session = {LoginSession}]
          /\ hcalls' = [hcalls EXCEPT ![k].pc = "callbackGetMe"]
          /\ UNCHANGED <<hookState, hookNavs>>
     ELSE AuthHookCatch(k, ApiThrown("exchangeCode", r))
  /\ UNCHANGED <<providerVars, utilVars>>

\* apiClient.getMe of handleCallback settles: a failure reaches the catch
\* history.replaceState(..., location.pathname) then drops the query
HandleCallbackGetMeSettles(k, r) ==
  /\ hcalls[k].pc = "callbackGetMe"
  /\ IF r = "ok"
     THEN /\ ctx' = [ctx EXCEPT !.user = "u1"]
          /\ hookState' = [hookState EXCEPT !["auth"].loading = FALSE]
          /\ hcalls' = [hcalls EXCEPT ![k].pc = "done",
                                      ![k].result = "resolved"]
          /\ urlQuery' = <<>>
          /\ replaceStates' = replaceStates + 1
          /\ UNCHANGED hookNavs
     ELSE /\ AuthHookCatch(k, ApiThrown("getMe", r))
          /\ UNCHANGED <<urlQuery, replaceStates>>
  /\ UNCHANGED <<browser, cookieJar, reloads>>
  /\ UNCHANGED <<authVars, refVars, mountVars, ghostVars, callVars,
                 guardVars, hostVars, utilVars>>

\* useClientLogout.logout() up to its await
UseClientLogoutLogout ==
  /\ Len(hcalls) < MaxHookCalls
  /\ hookState' = [hookState EXCEPT !["logout"] =
                     [loading |-> TRUE, error |-> {}]]
  /\ hcalls' = Append(hcalls, NewHookCall("logout", "logout"))
  /\ UNCHANGED <<ctx, hookNavs>>
  /\ UNCHANGED <<providerVars, utilVars>>

\* (mutant: user and session are cleared whether or not the call succeeded)
CtxAfterLogoutAlways(c, r) == [c EXCEPT !.user = NULL, !.session = {}]

\* the context after apiClient.logout settled: setUser(null) and
\* setSession(null) follow the await inside the try block
CtxAfterLogout(c, r) ==
  IF r = "ok" THEN [c EXCEPT !.user = NULL, !.session = {}] ELSE c

\* apiClient.logout settles
UseClientLogoutLogoutSettles(k, r) ==
  /\ hcalls[k].pc = "logout"
  /\ ctx' = CtxAfterLogout(ctx, r)
  /\ IF r = "ok"
     THEN /\ TRUE
          /\ hookNavs' = Append(hookNavs, "/")
          /\ hookState' = [hookState EXCEPT !["logout"].loading = FALSE]
          /\ hcalls' = [hcalls EXCEPT ![k].pc = "done",
                                      ![k].result = "resolved"]
     ELSE LET c == HookCatch("logout", ApiThrown("logout", r)) IN
          /\ hookState' = [hookState EXCEPT !["logout"] =
                             [loading |-> FALSE, error |-> {c.error}]]
          /\ hcalls' = [hcalls EXCEPT ![k].pc = "done", ![k].result = c.result,
                                      ![k].failed = TRUE]
          /\ UNCHANGED hookNavs
  /\ UNCHANGED <<providerVars, utilVars>>

\* useTokenRefresh.refreshToken() up to its await; the callback closes over
\* the session of the render it was created in
RefreshToken ==
  /\ Len(hcalls) < MaxHookCalls
  /\ IF ctx.session = {}
     THEN /\ hcalls' = Append(hcalls, [NewHookCall("refresh", "done")
                                         EXCEPT !.result = "false"])
          /\ UNCHANGED hookState
     ELSE /\ hookState' = [hookState EXCEPT !["refresh"] =
                             [loading |-> TRUE, error |-> {}]]
          /\ hcalls' = Append(hcalls, [NewHookCall("refresh", "refresh")
                                         EXCEPT !.snap = ctx.session])
  /\ UNCHANGED <<ctx, hookNavs>>
  /\ UNCHANGED <<providerVars, utilVars>>

\* apiClient.refreshToken settles
RefreshTokenSettles(k, r) ==
  LET result == RefreshResult(r) IN
  /\ hcalls[k].pc = "refresh"
  /\ IF result.success /\ result.accessToken # NULL /\ result.expiresAt # NULL
     THEN /\ ctx' = [ctx EXCEPT !.session =
                       {[d EXCEPT !.accessToken = result.accessToken,
                                  !.expiresAt = result.expiresAt] :
                          d \in hcalls[k].snap}]
          /\ hookState' = [hookState EXCEPT !["refresh"].loading = FALSE]
          /\ hcalls' = [hcalls EXCEPT ![k].pc = "done", ![k].result = "true",
                                      ![k].snap = {}]
     ELSE /\ hookState' = [hookState EXCEPT !["refresh"] =
                             [loading |-> FALSE,
                              error |-> IF result.error # {}
                                        THEN result.error
                                        ELSE {[code |-> "REFRESH_FAILED",
                                               message |-> "Token refresh failed"]}]]
          /\ hcalls' = [hcalls EXCEPT ![k].pc = "done", ![k].result = "false",
                                      ![k].failed = ~result.success,
                                      ![k].snap = {}]
          /\ UNCHANGED ctx
  /\ UNCHANGED hookNavs
  /\ UNCHANGED <<providerVars, utilVars>>

\* the hooks in a page whose session-lifecycle provider is not exercised
InitHook ==
  /\ ProviderIdle
  /\ browser = TRUE
  /\ urlQuery \in CallbackQueries
  /\ cookieJar = [n \in {CookieName} |-> NULL]
  /\ HookInit
  /\ UtilInit

\* ------------------------------------ context.tsx: validation on mount
\* what POST /session/validate can answer: a valid session with or without
\* the user inlined, valid without a session_id, not valid, or a request
\* that rejects (network failure, unparseable body)
ValidateResponses ==
  {"valid_user", "valid_nouser", "valid_nosid", "invalid", "reject"}

\* (mutant: the session_id of the response is not tested)
SessionAcceptedValidOnly(v) == v \in {"valid_user", "valid_nouser", "valid_nosid"}

\* `result.valid && result.session_id`
SessionAccepted(v) == v \in {"valid_user", "valid_nouser"}

\* the session object built from a SessionValidateResponse
ValidatedSession ==
  [sessionId |-> "sid0", accessToken |-> "", refreshToken |-> NULL,
   expiresAt |-> "e0"]

\* `const isAuthenticated = !!session && !!user`
IsAuthenticated(c) == c.session # {} /\ c.user # NULL

\* apiClient.validateSession() of the mount effect settles; without an
\* inlined user the effect goes on to await apiClient.getMe()
MountValidateSettles(v) ==
  /\ ctx.validation.pc = "validate"
  /\ ctx' =
       IF SessionAccepted(v)
       THEN IF v = "valid_user"
            THEN [ctx EXCEPT !.session = {ValidatedSession}, !.user = "u1",
                             !.isLoading = FALSE,
                             !.validation.pc = "done",
                             !.validation.outcome = v]
            ELSE [ctx EXCEPT !.session = {ValidatedSession},
                             !.validation.pc = "getMe",
                             !.validation.outcome = v]
       ELSE [ctx EXCEPT !.isLoading = FALSE,
                        !.validation.pc = "done",
                        !.validation.outcome = v]
  /\ UNCHANGED <<hookState, hcalls, hookNavs>>
  /\ UNCHANGED <<providerVars, utilVars>>

\* apiClient.getMe() of the mount effect settles; its failure is swallowed
MountGetMeSettles(r) ==
  /\ ctx.validation.pc = "getMe"
  /\ ctx' = [ctx EXCEPT !.user = IF r = "ok" THEN "u1" ELSE @,
                        !.isLoading = FALSE,
                        !.validation.pc = "done",
                        !.validation.profile = r]
  /\ UNCHANGED <<hookState, hcalls, hookNavs>>
  /\ UNCHANGED <<providerVars, utilVars>>

\* the context-based provider from its mount on a callback page, with the
\* hooks used below it
InitContext ==
  /\ ProviderIdle
  /\ browser = TRUE
  /\ urlQuery = << <<"code", "c1">>, <<"state", "s1">> >>
  /\ cookieJar = [n \in {CookieName} |-> NULL]
  /\ ctx = MountedContext
  /\ HooksIdle
  /\ UtilInit

NextHook ==
  \/ \E secret \in BOOLEAN : UseClientAuthLogin(secret)
  \/ \E k \in 1..Len(hcalls) : \E r \in ApiResults : \E redirect \in BOOLEAN :
       UseClientAuthLoginSettles(k, r, redirect)
  \/ \E k \in 1..Len(hcalls) : \E r \in ApiResults :
       UseClientAuthLoginGetMeSettles(k, r)
  \/ HandleCallback
  \/ \E k \in 1..Len(hcalls) : \E r \in ApiResults :
       HandleCallbackExchangeSettles(k, r)
  \/ \E k \in 1..Len(hcalls) : \E r \in ApiResults :
       HandleCallbackGetMeSettles(k, r)
  \/ UseClientLogoutLogout
  \/ \E k \in 1..Len(hcalls) : \E r \in ApiResults :
       UseClientLogoutLogoutSettles(k, r)
  \/ RefreshToken
  \/ \E k \in 1..Len(hcalls) : \E r \in RefreshResults : RefreshTokenSettles(k, r)

HookSpec == InitHook /\ [][NextHook]_vars

NextContext ==
  \/ \E v \in ValidateResponses : MountValidateSettles(v)
  \/ \E r \in ApiResults : MountGetMeSettles(r)
  \/ NextHook

ContextSpec == InitContext /\ [][NextContext]_vars

\* ------------------------------------------- direct calls of utilities
\* The functions of utils/url.ts and utils/cookies.ts called directly by
\* host code, on a page with any query string.  The query string is kept
\* in parsed form (URLSearchParams), as a sequence of <<name, value>>.
UtilNames  == {"token", "page"}
UtilValues == {"", "v"}

RECURSIVE SeqsUpTo(_, _)
SeqsUpTo(S, n) ==
  IF n = 0 THEN {<<>>}
  ELSE LET shorter == SeqsUpTo(S, n - 1) IN
       shorter \cup {Append(q, x) : q \in shorter, x \in S}

UtilQueries == SeqsUpTo(UtilNames \X UtilValues, MaxQueryLen)
UtilParams  == SeqsUpTo(UtilNames, 2)

\* the provider and the hooks before any of their operations
InitIdle ==
  /\ ProviderIdle
  /\ HookInit
  /\ NoUtilCall

\* a page with any query string
InitUtil ==
  /\ browser \in BOOLEAN
  /\ urlQuery \in (IF browser THEN UtilQueries ELSE {<<>>})
  /\ cookieJar \in [{CookieName} -> (IF browser THEN InitialCookies ELSE {NULL})]
  /\ StoreInit
  /\ InitIdle

\* the history-API calls cleanUrlParams makes
HistoryCalls(cleaned) ==
  IF cleaned.hasChanges THEN <<"replaceState">> ELSE <<>>

\* cleanUrlParams(params)
CleanUrlParamsCall(params) ==
  LET cleaned == CleanUrlParams(browser, urlQuery, params) IN
  /\ utilCalls < MaxUtilCalls
  /\ utilCalls' = utilCalls + 1
  /\ urlQuery' = cleaned.query
  /\ replaceStates' = replaceStates + Len(HistoryCalls(cleaned))
  /\ lastUtil' = [op |-> "cleanUrlParams", args |-> params,
                  before |-> urlQuery, result |-> HistoryCalls(cleaned)]
  /\ UNCHANGED <<browser, cookieJar, reloads, authVars, refVars, mountVars,
                 ghostVars, callVars, guardVars, hostVars, hookVars,
                 storeVars>>

\* login page URLs, without and with query parameters of their own
UtilLoginUrls ==
  { [url |-> LoginUrl, query |-> bq] :
      bq \in { <<>>,
               << <<"redirect", "/old">> >>,
               << <<"redirect", "/old">>, <<"lang", "en">>,
                  <<"redirect", "/older">> >> } }

\* the redirectUrl argument: omitted, empty, or a URL
UtilRedirectUrls == {NULL, "", "https://app.example/back"}

\* window.location.href
UtilHrefs == {"https://app.example/", "https://app.example/a?page=2"}

\* buildLoginUrl(loginUrl, redirectUrl)
BuildLoginUrlCall(loginUrl, redirectUrl, href) ==
  /\ utilCalls < MaxUtilCalls
  /\ utilCalls' = utilCalls + 1
  /\ lastUtil' = [op |-> "buildLoginUrl",
                  args |-> <<loginUrl, redirectUrl, href>>,
                  before |-> urlQuery,
                  result |-> BuildLoginUrlTo(browser, loginUrl, redirectUrl,
                                             href)]
  /\ UNCHANGED <<envVars, authVars, refVars, mountVars, ghostVars, callVars,
                 guardVars, hostVars, hookVars, storeVars>>

NextUtil ==
  \/ \E params \in UtilParams : CleanUrlParamsCall(params)
  \/ \E loginUrl \in UtilLoginUrls, redirectUrl \in UtilRedirectUrls,
        href \in (IF browser THEN UtilHrefs ELSE {NULL}) :
       BuildLoginUrlCall(loginUrl, redirectUrl, href)

UtilSpec == InitUtil /\ [][NextUtil]_vars

\* ------------------------------------------------ the session cache
\* sessions handed to cacheSession
CacheableSessions ==
  [valid : BOOLEAN,
   expiresAt : {NULL, "soon", "1970-01-01T00:00:01.500Z",
                "1970-01-01T00:00:02.000Z"}]

\* items found under the cache key when the page loads
InitialItems ==
  {{}} \cup {{[text |-> "", value |-> NoValue]}}
       \cup {{[text |-> "garbage", value |-> NoValue]}}
       \cup {{JsonStringify([session |-> x, cachedAt |-> t])} :
               x \in CacheableSessions, t \in {0, StartTime}}

AgeLimits == {0, 1}   \* seconds

InitStorage ==
  /\ browser \in BOOLEAN
  /\ urlQuery = <<>>
  /\ cookieJar = [n \in {CookieName} |-> NULL]
  /\ sessionCache \in (IF browser THEN InitialItems ELSE {{}})
  /\ now = StartTime
  /\ cookieStore = <<>>
  /\ stateStore = {}
  /\ InitIdle

\* time passes
Tick ==
  /\ now < StartTime + MaxTicks * TickMs
  /\ now' = now + TickMs
  /\ UNCHANGED <<sessionCache, cookieStore, stateStore, lastUtil, utilCalls,
                 providerVars, hookVars>>

\* cacheSession(session), called at time now
CacheSessionCall(x) ==
  /\ utilCalls < MaxUtilCalls
  /\ utilCalls' = utilCalls + 1
  /\ sessionCache' = CacheSession(browser, sessionCache, x, now)
  /\ lastUtil' = [op |-> "cacheSession", args |-> <<x, now>>,
                  before |-> sessionCache, result |-> NULL]
  /\ UNCHANGED <<now, cookieStore, stateStore, providerVars, hookVars>>

\* getCachedSession(maxAge), called at time now
GetCachedSessionCall(maxAge) ==
  LET got == GetCachedSession(browser, sessionCache, now, maxAge) IN
  /\ utilCalls < MaxUtilCalls
  /\ utilCalls' = utilCalls + 1
  /\ sessionCache' = IF got.cleared THEN {} ELSE sessionCache
  /\ lastUtil' = [op |-> "getCachedSession", args |-> <<maxAge, now>>,
                  before |-> sessionCache, result |-> got.session]
  /\ UNCHANGED <<now, cookieStore, stateStore, providerVars, hookVars>>

NextStorage ==
  \/ Tick
  \/ \E x \in CacheableSessions : CacheSessionCall(x)
  \/ \E maxAge \in AgeLimits : GetCachedSessionCall(maxAge)

StorageSpec == InitStorage /\ [][NextStorage]_vars

\* ------------------------------------------------- the cookie functions
\* cookie names and values handed to the functions
CookieNames  == { <<"s">>, <<"s", "=">>, <<"a", " ", "b">> }
CookieValues ==
  { <<"v">>, <<"=">>, <<"v", ";">>, <<"%", "2", "0">>, <<" ", "v">>,
    <<"v", "=", "v">> }

\* cookies the server has set for the page
InitialStores ==
  { <<>>,
    << [name |-> <<"z">>, value |-> <<"1">>] >>,
    << [name |-> <<"s">>, value |-> <<"o", "l", "d">>],
       [name |-> <<"z">>, value |-> <<"1">>] >> }

InitCookies ==
  /\ browser \in BOOLEAN
  /\ urlQuery = <<>>
  /\ cookieJar = [n \in {CookieName} |-> NULL]
  /\ sessionCache = {}
  /\ now = StartTime
  /\ cookieStore \in (IF browser THEN InitialStores ELSE {<<>>})
  /\ stateStore = {}
  /\ InitIdle

\* setCookie(name, value)
SetCookieCall(name, value) ==
  /\ utilCalls < MaxUtilCalls
  /\ utilCalls' = utilCalls + 1
  /\ cookieStore' = SetCookieText(browser, cookieStore, name, value)
  /\ lastUtil' = [op |-> "setCookie", args |-> <<name, value>>,
                  before |-> cookieStore, result |-> {}]
  /\ UNCHANGED <<sessionCache, now, stateStore, providerVars, hookVars>>

\* getCookie(name)
GetCookieCall(name) ==
  /\ utilCalls < MaxUtilCalls
  /\ utilCalls' = utilCalls + 1
  /\ lastUtil' = [op |-> "getCookie", args |-> <<name, <<>> >>,
                  before |-> cookieStore,
                  result |-> GetCookieText(browser, cookieStore, name)]
  /\ UNCHANGED <<storeVars, providerVars, hookVars>>

\* deleteCookie(name)
DeleteCookieCall(name) ==
  /\ utilCalls < MaxUtilCalls
  /\ utilCalls' = utilCalls + 1
  /\ cookieStore' = DeleteCookieText(browser, cookieStore, name)
  /\ lastUtil' = [op |-> "deleteCookie", args |-> <<name, <<>> >>,
                  before |-> cookieStore, result |-> {}]
  /\ UNCHANGED <<sessionCache, now, stateStore, providerVars, hookVars>>

NextCookies ==
  \/ \E name \in CookieNames, value \in CookieValues :
       SetCookieCall(name, value)
  \/ \E name \in CookieNames : GetCookieCall(name)
  \/ \E name \in CookieNames : DeleteCookieCall(name)

CookieSpec == InitCookies /\ [][NextCookies]_vars

\* ------------------------------------------- the CSRF state functions
\* storeState, retrieveState and validateState of utils.ts called directly
\* by host code; sessionStorage holds at most one value under its key.
\* the values compared: empty, two different ones, one differing by case only
StateValues == {"", "s1", "S1", "s2"}

\* storeState(state): the storage afterwards
StoreState(b, store, state) == IF b THEN {state} ELSE store

\* (mutant: the stored value is read but not removed)
RetrieveStatePeek(b, store) ==
  IF ~b
  THEN [state |-> NULL, store |-> store]
  ELSE [state |-> IF store = {} THEN NULL ELSE CHOOSE v \in store : TRUE,
        store |-> store]

\* retrieveState(): the value returned (getItem gives null for a missing
\* key) and the storage afterwards
RetrieveState(b, store) ==
  IF ~b
  THEN [state |-> NULL, store |-> store]
  ELSE [state |-> IF store = {} THEN NULL ELSE CHOOSE v \in store : TRUE,
        store |-> {}]

\* validateState(returnedState): the value returned and the storage afterwards
ValidateState(b, store, returnedState) ==
  LET retrieved == RetrieveState(b, store) IN
  [result |-> retrieved.state = returnedState, store |-> retrieved.store]

\* a page whose sessionStorage may hold a state stored before a redirect
InitState ==
  /\ browser \in BOOLEAN
  /\ urlQuery = <<>>
  /\ cookieJar = [n \in {CookieName} |-> NULL]
  /\ sessionCache = {}
  /\ now = StartTime
  /\ cookieStore = <<>>
  /\ stateStore \in (IF browser THEN {{}} \cup {{v} : v \in StateValues}
                     ELSE {{}})
  /\ InitIdle

\* the previous direct call, as <<op, args, result>>, or <<>>
PriorCall ==
  IF lastUtil.op = "none"
  THEN <<>>
  ELSE <<lastUtil.op, lastUtil.args, lastUtil.result>>

\* storeState(state)
StoreStateCall(state) ==
  /\ utilCalls < MaxUtilCalls
  /\ utilCalls' = utilCalls + 1
  /\ stateStore' = StoreState(browser, stateStore, state)
  /\ lastUtil' = [op |-> "storeState", args |-> state, prior |-> PriorCall,
                  before |-> stateStore, result |-> NULL]
  /\ UNCHANGED <<sessionCache, now, cookieStore, providerVars, hookVars>>

\* retrieveState()
RetrieveStateCall ==
  LET retrieved == RetrieveState(browser, stateStore) IN
  /\ utilCalls < MaxUtilCalls
  /\ utilCalls' = utilCalls + 1
  /\ stateStore' = retrieved.store
  /\ lastUtil' = [op |-> "retrieveState", args |-> NULL, prior |-> PriorCall,
                  before |-> stateStore, result |-> retrieved.state]
  /\ UNCHANGED <<sessionCache, now, cookieStore, providerVars, hookVars>>

\* validateState(returnedState)
ValidateStateCall(returnedState) ==
  LET validated == ValidateState(browser, stateStore, returnedState) IN
  /\ utilCalls < MaxUtilCalls
  /\ utilCalls' = utilCalls + 1
  /\ stateStore' = validated.store
  /\ lastUtil' = [op |-> "validateState", args |-> returnedState, prior |-> PriorCall,
                  before |-> stateStore, result |-> validated.result]
  /\ UNCHANGED <<sessionCache, now, cookieStore, providerVars, hookVars>>

NextState ==
  \/ \E state \in StateValues : StoreStateCall(state)
  \/ RetrieveStateCall
  \/ \E returnedState \in StateValues : ValidateStateCall(returnedState)

StateSpec == InitState /\ [][NextState]_vars

\* ------------------------------------------------------------ properties
InFlight == {i \in 1..Len(vcalls) : vcalls[i].pc \in {"fetch", "json"}}
Issued   == {i \in 1..Len(vcalls) : vcalls[i].pc # "skipped"}
Finished == {i \in 1..Len(vcalls) : vcalls[i].pc = "done"}

\* C1: at most one validate request is outstanding at any time, and the
\* number of requests issued never exceeds the number of completed
\* validations by more than one (a call made during a validation issues none).
C1_SingleFlight ==
  /\ Cardinality(InFlight) <= 1
  /\ Cardinality(Issued) <= Cardinality(Finished) + 1

\* two validateSession calls before the first resolves, one request; a
\* logout has been started as well
C1_Witness ==
  /\ \E i, k \in 1..Len(vcalls) :
       vcalls[i].pc = "fetch" /\ vcalls[k].pc = "skipped"
  /\ Cardinality(Issued) = 1
  /\ lcalls # <<>>

\* C2: once the mount effect has found a token in the URL and no validation
\* is running any more, the token parameter is gone from the URL and exactly
\* one validate request carried that token as session_token.
C2_UrlTokenValidatedOnce ==
  (/\ Truthy(initToken)
   /\ \A i \in 1..Len(vcalls) : vcalls[i].pc \notin ActiveV)
  => /\ ~SearchHas(urlQuery, TokenParam)
     /\ Cardinality({i \in Issued : vcalls[i].body = initToken}) = 1

\* C3: the body of the mount effect runs at most once, and so does the
\* URL rewrite it performs.
C3_InitOnce ==
  /\ initBodyRuns <= 1
  /\ replaceStates <= 1

\* the mount effect ran again after the body had run
C3_Witness ==
  /\ reran
  /\ initBodyRuns = 1

\* C4: in every state, each state write being a step, isAuthenticated
\* implies a non-null session whose valid field is true.
C4_AuthImpliesValidSession ==
  isAuthenticated => (session # {} /\ \A d \in session : d.valid)

\* C5: the step that ends a validate attempt whose request was rejected,
\* got a non-success status, had an unparseable body or answered
\* valid=false leaves isAuthenticated=false, session=null, isLoading=false.
C5_FailClosed ==
  [][\A i \in 1..Len(vcalls) :
       (/\ vcalls[i].pc = "finally"
        /\ vcalls'[i].pc = "done"
        /\ vcalls[i].outcome \in {"reject", "status", "badjson", "invalid"})
       => (~isAuthenticated' /\ session' = {} /\ ~isLoading')]_vars

\* a validation started while authenticated ended in a failure
C5_Witness ==
  /\ lastOutcome[1] \in {"reject", "status", "badjson"}
  /\ lastOutcome[2]
  /\ ~isAuthenticated /\ session = {} /\ ~isLoading

\* C6: when a logout was invoked during a validation, the step that
\* completes the later of the two leaves isAuthenticated=false, session=null.
C6_LogoutAuthoritative ==
  [][\A j \in 1..Len(lcalls) :
       (/\ lcalls[j].during # 0
        /\ lcalls'[j].pc = "done"
        /\ vcalls'[lcalls[j].during].pc = "done"
        /\ ~(lcalls[j].pc = "done" /\ vcalls[lcalls[j].during].pc = "done"))
       => (~isAuthenticated' /\ session' = {})]_vars

\* C7 (as stated): the step that completes a logout leaves
\* isAuthenticated=false and session=null, has deleted the credential,
\* has reloaded the page and has issued exactly one logout request; no
\* logout ever throws.
C7_LogoutAlwaysReloads ==
  [][/\ \A j \in 1..Len(lcalls') : lcalls'[j].pc # "threw"
     /\ \A j \in 1..Len(lcalls) :
          (lcalls[j].pc = "setSession" /\ lcalls'[j].pc = "done")
          => /\ ~isAuthenticated' /\ session' = {}
             /\ cookieJar'[CookieName] = NULL
             /\ reloads' = reloads + 1
             /\ lcalls'[j].requests = 1]_vars

\* C7 (amended): as above, but the page is reloaded exactly when the code
\* runs in a browser; outside a browser no reload is attempted.
C7_LogoutSucceedsLocally ==
  [][/\ \A j \in 1..Len(lcalls') : lcalls'[j].pc # "threw"
     /\ \A j \in 1..Len(lcalls) :
          (lcalls[j].pc = "setSession" /\ lcalls'[j].pc = "done")
          => /\ ~isAuthenticated' /\ session' = {}
             /\ cookieJar'[CookieName] = NULL
             /\ reloads' = reloads + (IF browser THEN 1 ELSE 0)
             /\ lcalls'[j].requests = 1]_vars

\* a logout whose request was rejected has completed in a browser
C7_Witness ==
  /\ browser
  /\ \E j \in 1..Len(lcalls) : lcalls[j].pc = "done"
  /\ lastLogout = "reject"
  /\ ~isAuthenticated /\ session = {}
  /\ cookieJar[CookieName] = NULL
  /\ reloads >= 1

\* C8: the run of the mount effect's body that finds neither a URL token
\* nor a stored credential sets isLoading=false in that same step, leaves
\* isAuthenticated=false and session=null, and issues no request.
C8_NoCredentialSettles ==
  [][(/\ initBodyRuns' = initBodyRuns + 1
      /\ ~Truthy(GetTokenFromUrl(browser, urlQuery, TokenParam))
      /\ ~Truthy(GetCookie(browser, cookieJar, CookieName)))
     => (/\ ~isLoading' /\ ~isAuthenticated' /\ session' = {}
         /\ vcalls' = vcalls /\ lcalls' = lcalls)]_vars

\* initialization settled without any validate call
C8_Witness ==
  /\ initBodyRuns = 1
  /\ vcalls = <<>>
  /\ ~isLoading /\ ~isAuthenticated /\ session = {}

\* C9: the guard performs at most one redirect action per transition into
\* the settled-unauthenticated condition.
C9_RedirectOncePerTransition ==
  redirects <= transitionsIn

\* C10: the guard shows the protected content only when settled and
\* authenticated, the loading renderable while loading, nothing when
\* settled and unauthenticated; it redirects in no other state than
\* settled-unauthenticated.
C10_GuardView ==
  /\ guardView = "children" => (~isLoading /\ isAuthenticated)
  /\ isLoading => guardView = "loading"
  /\ SettledUnauth(isLoading, isAuthenticated) => guardView = "nothing"
  /\ redirectStates \subseteq {<<FALSE, FALSE>>}

\* protected content is shown after a re-render of the guard
C10_Witness ==
  /\ guardView = "children"
  /\ isAuthenticated /\ ~isLoading
  /\ rerenders > 0

\* a step on which a validation runs its finally block / a logout returns
EndsValidation ==
  \E i \in 1..Len(vcalls) : vcalls[i].pc = "finally" /\ vcalls'[i].pc = "done"
EndsLogout ==
  \E j \in 1..Len(lcalls) : lcalls[j].pc = "setSession" /\ lcalls'[j].pc = "done"

\* C11: onAuthStateChange is never invoked with a state whose isLoading is
\* true, and when a validation or a logout ends with isLoading = false, the
\* callback has been invoked with exactly the state the operation ends in.
C11_NotifySettledState ==
  /\ [](\A n \in lastNotified : ~n.isLoading)
  /\ [][(EndsValidation \/ EndsLogout) /\ ~isLoading'
         => lastNotified' = {AuthStateOf(isAuthenticated', isLoading', session')}]_vars

C11_Witness ==
  /\ lastOutcome[1] = "valid"
  /\ lastLogout = "none"
  /\ lcalls = <<>>
  /\ lastNotified = {AuthStateOf(TRUE, FALSE, {ResponseData("valid")})}

\* C12: a validation that passed the in-flight guard always ends: once the
\* in-flight flag is set, whichever way the request ends, a state with
\* isLoading = false and the flag released is reached (given that requests
\* settle), and the step that ends a validation is the one that does both.
C12_ValidationTerminates ==
  /\ isValidating ~> (~isValidating /\ ~isLoading)
  /\ [][EndsValidation => ~isLoading' /\ ~isValidating']_vars

C12_Witness ==
  /\ lastOutcome[1] = "reject"
  /\ Finished # {}
  /\ ~isValidating
  /\ ~isLoading

\* C13: while a validation is running (the in-flight flag is set), isLoading
\* is true.
C13_LoadingWhileValidating == isValidating => isLoading

\* C14: a validation whose response parsed with valid = true ends in the
\* state isAuthenticated = true, isLoading = false, session = the whole
\* response object, user = the response's nested user.
C14_ValidResponseAdopted ==
  [][\A i \in 1..Len(vcalls) :
       /\ vcalls[i].pc = "finally"
       /\ vcalls'[i].pc = "done"
       /\ vcalls[i].outcome \in {"valid", "valid_nouser"}
       => AuthStateOf(isAuthenticated', isLoading', session')
            = [isAuthenticated |-> TRUE,
               isLoading       |-> FALSE,
               session         |-> {ResponseData(vcalls[i].outcome)},
               user            |-> ResponseData(vcalls[i].outcome).user]]_vars

C14_Witness ==
  /\ lastOutcome[1] = "valid"
  /\ isAuthenticated
  /\ ~isLoading
  /\ UserOf(session) = "u1"
  /\ \A d \in session : d.valid /\ d.expiresAt = "2030-01-01T00:00:00Z"

\* C15: when the mount effect finds a token t in the URL, the stored
\* credential is t afterwards, the token parameter is gone from the URL, a
\* validate request the effect issues carries t and is sent with the
\* credential already stored and the URL already stripped, and the stored
\* credential is not read; it is read only when no URL token is found.
C15_UrlTokenPrecedence ==
  [][initBodyRuns' = initBodyRuns + 1 =>
       LET t == GetTokenFromUrl(browser, urlQuery, TokenParam) IN
       IF Truthy(t)
       THEN /\ GetCookie(browser, cookieJar', CookieName) = t
            /\ ~SearchHas(urlQuery', TokenParam)
            /\ cookieReads' = cookieReads
            /\ \A i \in 1..Len(vcalls') :
                  i > Len(vcalls) /\ vcalls'[i].pc = "fetch"
                  => /\ vcalls'[i].body = t
                     /\ vcalls'[i].sent = [cookie |-> t, query |-> urlQuery']
       ELSE cookieReads' = cookieReads + 1]_vars

C15_Witness ==
  /\ initToken = "t1"
  /\ cookieJar[CookieName] = "t1"
  /\ cookieReads = 0
  /\ \E i \in 1..Len(vcalls) :
        /\ vcalls[i].by = "mount"
        /\ vcalls[i].body = "t1"
        /\ vcalls[i].sent = [cookie |-> "t1", query |-> << <<"page", "2">> >>]

\* the mount effect runs its body and finds no URL token but a stored
\* credential
InitFromStoredCredential ==
  /\ initBodyRuns' = initBodyRuns + 1
  /\ ~Truthy(GetTokenFromUrl(browser, urlQuery, TokenParam))
  /\ Truthy(GetCookie(browser, cookieJar, CookieName))

\* C16 (as stated): when the mount effect finds no URL token but a stored
\* credential, it issues exactly one validate request, with an empty body,
\* and leaves the URL and the stored credential as they were.
C16_StoredCredentialOneRequest ==
  [][InitFromStoredCredential =>
       /\ Len(vcalls') = Len(vcalls) + 1
       /\ vcalls'[Len(vcalls')].pc = "fetch"
       /\ vcalls'[Len(vcalls')].body = NULL
       /\ urlQuery' = urlQuery
       /\ cookieJar' = cookieJar]_vars

\* C16 (amended): in that case the mount effect calls validateSession() once,
\* without an override, and leaves the URL and the stored credential as they
\* were; the call issues one request with an empty body, unless a validation
\* is already in flight: then it issues none, and the request in flight has
\* an empty body and was sent with the same stored credential.
C16_StoredCredentialValidated ==
  [][InitFromStoredCredential =>
       /\ Len(vcalls') = Len(vcalls) + 1
       /\ vcalls'[Len(vcalls')].by = "mount"
       /\ urlQuery' = urlQuery
       /\ cookieJar' = cookieJar
       /\ IF isValidating
          THEN /\ vcalls'[Len(vcalls')].pc = "skipped"
               /\ \E i \in InFlight :
                     /\ vcalls[i].body = NULL
                     /\ vcalls[i].sent.cookie = cookieJar[CookieName]
          ELSE /\ vcalls'[Len(vcalls')].pc = "fetch"
               /\ vcalls'[Len(vcalls')].body = NULL
               /\ vcalls'[Len(vcalls')].sent.cookie = cookieJar[CookieName]]_vars

C16_Witness ==
  /\ cookieReads = 1
  /\ ~Truthy(initToken)
  /\ cookieJar[CookieName] = "old"
  /\ \E i \in 1..Len(vcalls) :
        /\ vcalls[i].by = "mount"
        /\ vcalls[i].pc = "fetch"
        /\ vcalls[i].body = NULL
        /\ vcalls[i].sent.cookie = "old"

\* the ways a validation can fail
ValidateFailures == {"reject", "status", "badjson", "invalid"}

\* C17: validateSession never ends by throwing, and when its request was
\* rejected, got a non-success status or an unparseable body, or answered
\* valid = false, the call completes normally in the unauthenticated state.
C17_ValidationNeverThrows ==
  /\ [](\A i \in 1..Len(vcalls) : vcalls[i].pc # "threw")
  /\ (\E i \in 1..Len(vcalls) : vcalls[i].outcome \in ValidateFailures)
       ~> (/\ lastOutcome[1] \in ValidateFailures
           /\ \A i \in 1..Len(vcalls) : vcalls[i].pc \in {"skipped", "done"}
           /\ ~isAuthenticated
           /\ session = {})

C17_Witness ==
  /\ lastOutcome[1] = "badjson"
  /\ \A i \in 1..Len(vcalls) : vcalls[i].pc \in {"skipped", "done"}
  /\ Finished # {}
  /\ ~isAuthenticated
  /\ session = {}

\* a remote call of hook operation k fails on this step
RemoteCallFails(k) == hcalls'[k].failed /\ ~hcalls[k].failed

\* e is an error state holding one object with a code and a message
StructuredError(e) ==
  /\ e # {}
  /\ \A x \in e : DOMAIN x = {"code", "message"} /\ x.code # NULL

\* C18 (as stated): when a remote call of a login, logout, refresh or
\* callback hook operation fails, the operation records a structured error
\* in its hook's error state and re-throws the failure.
C18_HookFailureRecordedAndRethrown ==
  [][\A k \in 1..Len(hcalls) :
       RemoteCallFails(k)
       => /\ StructuredError(hookState'[HookOf(hcalls[k].op)].error)
          /\ hcalls'[k].result = "threw"]_vars

\* C18 (amended): a failing login request, code exchange, profile fetch of
\* the callback or logout request is recorded as a structured error in the
\* hook's error state (and, for login and callback, in the context's) and
\* re-thrown; a failing refresh request is recorded as a structured error
\* and refreshToken resolves to false without throwing; a failing profile
\* fetch of login is swallowed: no error is recorded and login resolves.
C18_HookFailureHandling ==
  [][\A k \in 1..Len(hcalls) :
       RemoteCallFails(k)
       => LET op  == hcalls[k].op
              err == hookState'[HookOf(op)].error
          IN
          CASE op = "refresh" ->
                 /\ StructuredError(err)
                 /\ hcalls'[k].result = "false"
            [] op = "login" /\ hcalls[k].pc = "loginGetMe" ->
                 /\ err = hookState["auth"].error
                 /\ ctx'.error = ctx.error
                 /\ hcalls'[k].result = "resolved"
            [] OTHER ->
                 /\ StructuredError(err)
                 /\ op \in {"login", "callback"} => ctx'.error = err
                 /\ hcalls'[k].result = "threw"]_vars

C18_Witness ==
  /\ \E k \in 1..Len(hcalls) :
        /\ hcalls[k].op = "callback"
        /\ hcalls[k].failed
        /\ hcalls[k].result = "threw"
  /\ StructuredError(hookState["auth"].error)
  /\ \E k \in 1..Len(hcalls) :
        /\ hcalls[k].op = "refresh"
        /\ hcalls[k].failed
        /\ hcalls[k].result = "false"
  /\ StructuredError(hookState["refresh"].error)

\* C19: a login() call changes none of isAuthenticated, isLoading, session,
\* the in-flight flag, the initialization flag and the stored credential;
\* in a browser it performs exactly one navigation, to the login URL with
\* redirect set to the current page URL, and outside a browser none.
C19_LoginOnlyNavigates ==
  [][loginCalls' = loginCalls + 1 =>
       /\ UNCHANGED <<isAuthenticated, isLoading, session, isValidating,
                      isInitialized, cookieJar>>
       /\ IF browser
          THEN /\ navCount' = navCount + 1
               /\ navs' = navs \cup {[kind |-> "login", target |-> LoginUrl,
                                       redirect |-> {urlQuery}]}
          ELSE /\ navCount' = navCount
               /\ navs' = navs]_vars

C19_Witness ==
  /\ loginCalls = 1
  /\ browser
  /\ isInitialized
  /\ navCount = 1
  /\ navs = {[kind |-> "login", target |-> LoginUrl,
              redirect |-> {<< <<"page", "2">> >>}]}

\* C20: the session in the auth state is null or a session with
\* valid = true; a response with valid = false is never stored.
C20_StoredSessionValid == \A d \in session : d.valid = TRUE

C20_Witness ==
  /\ session = {ResponseData("valid_nouser")}
  /\ lastOutcome[1] = "valid_nouser"
  /\ UserOf(session) = NULL

\* C21: in the auth state given to consumers, and in every state handed to
\* onAuthStateChange, user is the user of the session when there is a
\* session, and null when session is null.
C21_UserDerivedFromSession ==
  LET exposed == {AuthStateOf(isAuthenticated, isLoading, session)}
                   \cup lastNotified
  IN \A st \in exposed :
       /\ st.session = {} => st.user = NULL
       /\ \A d \in st.session : st.user = d.user

C21_Witness ==
  /\ session = {}
  /\ lastLogout # "none"
  /\ \E n \in lastNotified : n.session = {} /\ n.user = NULL /\ ~n.isAuthenticated
  /\ lastOutcome[1] = "valid"

\* a step on which a validation or a logout writes isAuthenticated or session
CompletionWrite ==
  \/ \E i \in 1..Len(vcalls) :
        vcalls[i].pc \in {"setAuth", "setSession"} /\ vcalls'[i].pc # vcalls[i].pc
  \/ \E j \in 1..Len(lcalls) :
        lcalls[j].pc \in WritingL /\ lcalls'[j].pc # lcalls[j].pc

\* C22: isAuthenticated and session change only on the writes that complete
\* a validation or inside logout(); a validateSession call rejected by the
\* in-flight guard, a login() call and a re-run of the mount effect change
\* none of isAuthenticated, isLoading, session.
C22_SettledStatesStable ==
  [][/\ (isAuthenticated' # isAuthenticated \/ session' # session)
          => CompletionWrite
     /\ (Len(vcalls') > Len(vcalls) /\ vcalls'[Len(vcalls')].pc = "skipped")
          => UNCHANGED authVars
     /\ loginCalls' # loginCalls => UNCHANGED authVars
     /\ (reran' /\ ~reran) => UNCHANGED authVars]_vars

C22_Witness ==
  /\ \E i \in 1..Len(vcalls) : vcalls[i].pc = "skipped"
  /\ loginCalls = 1
  /\ reran
  /\ isAuthenticated
  /\ session # {}
  /\ ~isLoading

\* C23: a cleanUrlParams(names) call in a browser removes every named
\* parameter and keeps the others in order; it calls history.replaceState
\* exactly once when a named parameter was present and makes no history
\* call otherwise (never a push or a reload); calling it again with the same
\* names changes nothing and makes no history call.
C23_CleanUrlParamsMinimal ==
  lastUtil.op = "cleanUrlParams" /\ browser =>
    LET names   == {lastUtil.args[i] : i \in 1..Len(lastUtil.args)}
        present == \E i \in 1..Len(lastUtil.before) :
                     lastUtil.before[i][1] \in names
        Other(p) == p[1] \notin names
        again   == CleanUrlParams(browser, urlQuery, lastUtil.args)
    IN
    /\ urlQuery = SelectSeq(lastUtil.before, Other)
    /\ lastUtil.result = IF present THEN <<"replaceState">> ELSE <<>>
    /\ reloads = 0
    /\ again = [query |-> urlQuery, hasChanges |-> FALSE]

C23_Witness ==
  /\ lastUtil.op = "cleanUrlParams"
  /\ browser
  /\ lastUtil.before = << <<"token", "v">>, <<"page", "v">> >>
  /\ lastUtil.args = <<"token">>
  /\ urlQuery = << <<"page", "v">> >>
  /\ replaceStates = 1

\* the result of buildLoginUrl is loginUrl with its redirect parameter set
\* to the given value once, every other parameter kept
RedirectSetTo(result, loginUrl, value) ==
  LET IsRedirect(p) == p[1] = "redirect"
      Other(p)      == p[1] # "redirect"
  IN /\ result.kind = "toString"
     /\ result.url = loginUrl.url
     /\ SelectSeq(result.query, IsRedirect) = << <<"redirect", value>> >>
     /\ SelectSeq(result.query, Other) = SelectSeq(loginUrl.query, Other)

\* C24 as stated: buildLoginUrl(base, returnTo) returns base unchanged
\* exactly when it is called outside a browser without a returnTo argument;
\* otherwise it returns base with redirect set to the returnTo argument, or
\* to the current full URL when the argument is omitted.
C24_BuildLoginUrlSupplied ==
  lastUtil.op = "buildLoginUrl" =>
    LET loginUrl    == lastUtil.args[1]
        redirectUrl == lastUtil.args[2]
        href        == lastUtil.args[3]
        supplied    == redirectUrl # NULL
    IN IF ~browser /\ ~supplied
       THEN lastUtil.result.kind = "loginUrl"
       ELSE RedirectSetTo(lastUtil.result, loginUrl,
                          IF supplied THEN redirectUrl ELSE href)

\* C24 (amended): buildLoginUrl(base, returnTo) returns base unchanged
\* exactly when it is called outside a browser with returnTo omitted or
\* empty; otherwise it returns base with redirect set to the non-empty
\* returnTo, or to the current full URL when returnTo is omitted or empty.
C24_BuildLoginUrlNonEmpty ==
  lastUtil.op = "buildLoginUrl" =>
    LET loginUrl    == lastUtil.args[1]
        redirectUrl == lastUtil.args[2]
        href        == lastUtil.args[3]
        supplied    == redirectUrl # NULL /\ redirectUrl # ""
    IN IF ~browser /\ ~supplied
       THEN /\ lastUtil.result.kind = "loginUrl"
            /\ lastUtil.result.url = loginUrl.url
            /\ lastUtil.result.query = loginUrl.query
       ELSE RedirectSetTo(lastUtil.result, loginUrl,
                          IF supplied THEN redirectUrl ELSE href)

C24_Witness ==
  /\ lastUtil.op = "buildLoginUrl"
  /\ browser
  /\ lastUtil.args[2] = ""
  /\ Len(lastUtil.args[1].query) = 3
  /\ lastUtil.result.query =
       << <<"redirect", "https://app.example/a?page=2">>, <<"lang", "en">> >>

\* the cached item is one getCachedSession serves at time t
Servable(item, t, maxAge) ==
  \E i \in item :
    /\ i.text = "json"
    /\ (t - i.value.cachedAt) <= maxAge * 1000
    /\ i.value.session.valid
    /\ ~Greater(t, DateGetTime(i.value.session.expiresAt))

\* every later getCachedSession call returns null
LaterReadsNull ==
  \A t \in now..(StartTime + MaxTicks * TickMs), m \in AgeLimits :
    GetCachedSession(browser, sessionCache, t, m).session = {}

\* C25 as stated: getCachedSession(maxAge) returns the cached session only
\* when the entry is at most maxAge seconds old, its session is valid and not
\* past its expiresAt; in every other case, an unparseable entry included, it
\* returns null and the entry is removed, so that later reads return null.
C25_StaleEntryRemoved ==
  lastUtil.op = "getCachedSession" /\ browser =>
    LET item == lastUtil.before
        hit  == Servable(item, lastUtil.args[2], lastUtil.args[1])
    IN IF hit
       THEN lastUtil.result = {i.value.session : i \in item}
       ELSE /\ lastUtil.result = {}
            /\ sessionCache = {}
            /\ LaterReadsNull

\* C25 (amended): as stated, except that an entry whose text is empty is
\* left in place; later reads return null all the same.
C25_StaleEntryDiscarded ==
  lastUtil.op = "getCachedSession" /\ browser =>
    LET item == lastUtil.before
        hit  == Servable(item, lastUtil.args[2], lastUtil.args[1])
    IN IF hit
       THEN /\ lastUtil.result = {i.value.session : i \in item}
            /\ sessionCache = item
       ELSE /\ lastUtil.result = {}
            /\ sessionCache = {i \in item : i.text = ""}
            /\ LaterReadsNull

C25_Witness ==
  /\ lastUtil.op = "getCachedSession"
  /\ browser
  /\ lastUtil.args[1] = 1
  /\ \E i \in lastUtil.before :
       /\ i.text = "json"
       /\ i.value.session.valid
       /\ i.value.session.expiresAt = NULL
       /\ lastUtil.args[2] - i.value.cachedAt = 1500
  /\ lastUtil.result = {}
  /\ sessionCache = {}

\* the functions read every other name as they did before the last call
OtherNamesKept ==
  \A m \in CookieNames \ {lastUtil.args[1]} :
    GetCookieText(browser, cookieStore, m)
      = GetCookieText(browser, lastUtil.before, m)

\* C26: in a browser, after setCookie(n, v) with v non-empty, getCookie(n)
\* returns v and hasCookie(n) is true, and setting the same value again
\* leaves the cookies unchanged; after deleteCookie(n), getCookie(n) returns
\* null and hasCookie(n) is false, and deleting a name that is absent leaves
\* the cookies unchanged; a getCookie call changes nothing.
C26_CookieRoundTrip ==
  browser =>
    LET n == lastUtil.args[1]
        v == lastUtil.args[2]
    IN
    /\ lastUtil.op = "setCookie" =>
         /\ GetCookieText(browser, cookieStore, n) = {v}
         /\ HasCookieText(browser, cookieStore, n)
         /\ SetCookieText(browser, cookieStore, n, v) = cookieStore
         /\ OtherNamesKept
    /\ lastUtil.op = "deleteCookie" =>
         /\ GetCookieText(browser, cookieStore, n) = {}
         /\ ~HasCookieText(browser, cookieStore, n)
         /\ ~HasCookieText(browser, lastUtil.before, n)
              => cookieStore = lastUtil.before
         /\ DeleteCookieText(browser, cookieStore, n) = cookieStore
         /\ OtherNamesKept
    /\ lastUtil.op = "getCookie" => cookieStore = lastUtil.before

C26_Witness ==
  /\ browser
  /\ lastUtil.op = "deleteCookie"
  /\ lastUtil.args[1] = <<"s", "=">>
  /\ GetCookieText(browser, lastUtil.before, <<"s", "=">>)
       = {<<"v", "=", "v">>}
  /\ GetCookieText(browser, cookieStore, <<"s">>) = {<<"o", "l", "d">>}
  /\ GetCookieText(browser, cookieStore, <<"s", "=">>) = {}

\* C27: each time the guard acts on the settled unauthenticated state it
\* calls onRedirect first when one is given (and not otherwise), and after it
\* makes exactly one of the two moves, a navigation to redirectUrl when one
\* is given and login() when none is: one navigation, never two, never none.
C27_OneRedirectAfterCallback ==
  [][redirects' # redirects =>
       LET ru   == guardDeps'[4]
           cb   == guardDeps'[5]
           last == Len(guardCalls')
       IN /\ redirects' = redirects + 1
          /\ ~isLoading' /\ ~isAuthenticated'
          /\ last >= 1
          /\ CallsOf(guardCalls', "href") + CallsOf(guardCalls', "login") = 1
          /\ guardCalls'[last] = IF Truthy(ru) THEN "href" ELSE "login"
          /\ CallsOf(guardCalls', "onRedirect") = IF cb # NULL THEN 1 ELSE 0
          /\ cb # NULL => guardCalls'[1] = "onRedirect" /\ last = 2
          /\ onRedirectCalls' = onRedirectCalls + (IF cb # NULL THEN 1 ELSE 0)
          /\ navCount' = navCount + 1
          /\ \E nav \in navs' :
               IF Truthy(ru)
               THEN nav.kind = "custom" /\ nav.target = ru
               ELSE nav.kind = "login" /\ nav.target = LoginUrl]_vars

C27_Witness ==
  /\ redirects = 2
  /\ guardDeps[4] = "/auth/login"
  /\ guardDeps[5] = "cb2"
  /\ guardCalls = <<"onRedirect", "href">>
  /\ navCount = 2
  /\ onRedirectCalls = 2
  /\ \E nav \in navs : nav.kind = "login"

\* the promise of call i is resolved by the step: the call returned at its
\* guard, or left its finally block
Resolves(i) ==
  /\ vcalls'[i].pc \in {"skipped", "done"}
  /\ i <= Len(vcalls) => vcalls[i].pc \notin {"skipped", "done"}

\* C28: when the promise of a validateSession() call made through the
\* context resolves, no validation is in flight and isLoading is false,
\* also when the call was made while another validation was in flight.
C28_ResolvedMeansSettled ==
  [][\A i \in 1..Len(vcalls') :
       vcalls'[i].by = "descendant" /\ Resolves(i)
         => ~isValidating' /\ ~isLoading']_vars

\* C29: once the body of the mount effect has run in a browser, isLoading
\* is true only while the in-flight flag is set; and isLoading turns true
\* only in a step in which a validateSession call passes the guard.
C29_NoStuckLoading ==
  /\ [](isInitialized /\ browser /\ isLoading => isValidating)
  /\ [][isLoading' /\ ~isLoading =>
          /\ Len(vcalls') = Len(vcalls) + 1
          /\ vcalls'[Len(vcalls')].pc = "fetch"
          /\ ~isValidating /\ isValidating']_vars

C29_Witness ==
  /\ isInitialized
  /\ browser
  /\ Len(vcalls) = 2
  /\ vcalls[1].by = "mount" /\ vcalls[1].pc = "done"
  /\ vcalls[2].by = "descendant" /\ vcalls[2].pc = "fetch"
  /\ isLoading
  /\ isValidating

\* C30: once the body of the mount effect has run, the token parameter is
\* not in the query string of the page, whatever value it had when the page
\* loaded (an empty one included); and only the step that runs that body
\* takes the parameter out of the query string.
C30_TokenParamStripped ==
  /\ [](initBodyRuns > 0 => ~SearchHas(urlQuery, TokenParam))
  /\ [][SearchHas(urlQuery, TokenParam) /\ ~SearchHas(urlQuery', TokenParam)
          => initBodyRuns' = initBodyRuns + 1]_vars

\* C31: no navigation to the login page made by the guard carries, in the
\* page URL it passes as redirect, a token parameter with a token in it: the
\* token that arrived in the URL was stripped before the guard navigates.
C31_TokenNotForwarded ==
  \A nav \in navs :
    nav.kind = "login" =>
      \A q \in nav.redirect :
        \A i \in 1..Len(q) : q[i][1] = TokenParam => ~Truthy(q[i][2])

\* a step of validateSession other than the mount effect calling it
ValidationStep == vcalls' # vcalls /\ initBodyRuns' = initBodyRuns

\* C32: no step of validateSession, whatever its outcome, reads or changes
\* the stored credential or changes the URL; the stored credential changes
\* only when the mount effect stores the URL token and when logout deletes
\* it, and the URL only in the mount effect.
C32_ValidationLeavesCredential ==
  [][/\ ValidationStep =>
          UNCHANGED <<cookieJar, cookieReads, urlQuery, replaceStates>>
     /\ cookieJar' # cookieJar =>
          \/ /\ initBodyRuns' = initBodyRuns + 1
             /\ Truthy(initToken')
             /\ cookieJar' = [cookieJar EXCEPT ![CookieName] = initToken']
          \/ /\ \E j \in 1..Len(lcalls) :
                  lcalls[j].pc = "setSession" /\ lcalls'[j].pc = "done"
             /\ cookieJar' = [cookieJar EXCEPT ![CookieName] = NULL]
     /\ urlQuery' # urlQuery => initBodyRuns' = initBodyRuns + 1]_vars

C32_Witness ==
  /\ browser
  /\ lastOutcome[1] \in ValidateFailures
  /\ \E i \in 1..Len(vcalls) : vcalls[i].by = "descendant" /\ vcalls[i].pc = "done"
  /\ cookieJar[CookieName] = "old"
  /\ lcalls = <<>>

\* the step in which call k of useClientLogout.logout() ends
LogoutHookEnds(k) ==
  /\ k <= Len(hcalls)
  /\ hcalls[k].op = "logout"
  /\ hcalls[k].pc = "logout"
  /\ hcalls'[k].pc = "done"

\* what C33 and its amendment share: a failed remote logout leaves user and
\* session, makes no redirect, records an error with a code among codes,
\* re-throws and ends with isLoading false; only a successful one clears
\* user and session and redirects; the call itself does neither
LogoutHookContract(codes) ==
  /\ \A k \in 1..Len(hcalls') :
       LogoutHookEnds(k) =>
         /\ ~hookState'["logout"].loading
         /\ IF hcalls'[k].failed
            THEN /\ ctx'.user = ctx.user /\ ctx'.session = ctx.session
                 /\ hookNavs' = hookNavs
                 /\ hcalls'[k].result = "threw"
                 /\ \E e \in hookState'["logout"].error : e.code \in codes
            ELSE /\ ctx'.user = NULL /\ ctx'.session = {}
                 /\ hookNavs' = Append(hookNavs, "/")
                 /\ hcalls'[k].result = "resolved"
  /\ (Len(hcalls') > Len(hcalls) /\ hcalls'[Len(hcalls')].op = "logout")
       => ctx' = ctx /\ hookNavs' = hookNavs

\* C33 as stated: when the remote logout fails, user and session are left
\* unchanged, no redirect is made, the hook's error carries the server's
\* code or LOGOUT_ERROR, the failure is re-thrown and isLoading ends false;
\* user and session are cleared and the redirect made only after success.
C33_LogoutFailureCodes ==
  [][LogoutHookContract({"server_code", "LOGOUT_ERROR"})]_vars

\* C33 (amended): as stated, with the error code being the server's code,
\* LOGOUT_FAILED (a non-success status without a code) or LOGOUT_ERROR.
C33_LogoutFailureKeepsSession ==
  [][LogoutHookContract({"server_code", "LOGOUT_FAILED", "LOGOUT_ERROR"})]_vars

C33_Witness ==
  /\ ctx.session # {}
  /\ ctx.user = "u1"
  /\ hookNavs = <<>>
  /\ \E k \in 1..Len(hcalls) :
       /\ hcalls[k].op = "logout"
       /\ hcalls[k].pc = "done"
       /\ hcalls[k].failed
       /\ hcalls[k].result = "threw"
  /\ \E e \in hookState["logout"].error : e.code = "LOGOUT_FAILED"
  /\ ~hookState["logout"].loading

\* the step in which call k of useTokenRefresh.refreshToken() ends
RefreshEnds(k) ==
  /\ k <= Len(hcalls)
  /\ hcalls[k].op = "refresh"
  /\ hcalls[k].pc = "refresh"
  /\ hcalls'[k].pc = "done"

\* a logout invoked after call k has succeeded and the session is null
LoggedOutSince(k) ==
  /\ ctx.session = {}
  /\ \E j \in (k + 1)..Len(hcalls) :
       /\ hcalls[j].op = "logout"
       /\ hcalls[j].pc = "done"
       /\ ~hcalls[j].failed

\* C34: once a logout has set session to null, a token refresh that was
\* started before the logout and completes after it leaves session null.
C34_RefreshKeepsLogout ==
  [][\A k \in 1..Len(hcalls) :
       (RefreshEnds(k) /\ LoggedOutSince(k)) => ctx'.session = {}]_vars

\* the error codes C35 allows after a failed refresh
RefreshErrorCodes ==
  {"server_code", "REFRESH_FAILED", "NETWORK_ERROR", "REFRESH_ERROR"}

\* the step in which refreshToken() is invoked as a new call
RefreshInvoked ==
  /\ Len(hcalls') = Len(hcalls) + 1
  /\ hcalls'[Len(hcalls')].op = "refresh"

\* session x differs from session y in accessToken and expiresAt at most
SameButTokens(x, y) ==
  /\ x # {}
  /\ y # {}
  /\ \A a \in x : \A b \in y :
       a.sessionId = b.sessionId /\ a.refreshToken = b.refreshToken

\* C35: refreshToken() with no current session returns false without a
\* request and without changing any state; a successful refresh returns
\* true and changes only accessToken and expiresAt of the session, leaving
\* the other session fields and the user unchanged; a failure returns false
\* (never throws), leaves the session unchanged and sets an error with the
\* server code, REFRESH_FAILED, NETWORK_ERROR or REFRESH_ERROR; isRefreshing
\* is false when it returns.
C35_RefreshFrame ==
  [][/\ RefreshInvoked =>
          IF ctx.session = {}
          THEN /\ hcalls'[Len(hcalls')].pc = "done"
               /\ hcalls'[Len(hcalls')].result = "false"
               /\ UNCHANGED <<ctx, hookState, hookNavs>>
               /\ ~hookState'["refresh"].loading
          ELSE /\ hcalls'[Len(hcalls')].pc = "refresh"
               /\ ctx' = ctx
     /\ \A k \in 1..Len(hcalls) :
          RefreshEnds(k) =>
            /\ ~hookState'["refresh"].loading
            /\ hcalls'[k].result \in {"true", "false"}
            /\ ctx'.user = ctx.user
            /\ IF hcalls'[k].result = "true"
               THEN /\ SameButTokens(ctx'.session, ctx.session)
                    /\ \A d \in ctx'.session :
                         d.accessToken = "at2" /\ d.expiresAt = "e2"
               ELSE /\ ctx'.session = ctx.session
                    /\ \E e \in hookState'["refresh"].error :
                         e.code \in RefreshErrorCodes]_vars

\* the step in which handleCallback() is invoked as a new call
CallbackInvoked ==
  /\ Len(hcalls') = Len(hcalls) + 1
  /\ hcalls'[Len(hcalls')].op = "callback"

\* the step in which call k of handleCallback() ends
CallbackEnds(k) ==
  /\ hcalls'[k].op = "callback"
  /\ hcalls'[k].pc = "done"
  /\ k <= Len(hcalls) => hcalls[k].pc # "done"

\* C36: handleCallback() is all-or-nothing: with a provider error in the URL
\* or without a code it issues no request and throws with the provider's
\* code verbatim or MISSING_CODE; whenever it fails, at the code exchange or
\* at the profile fetch, session and user are as they were before the call
\* and the URL is left as it was; on success both session and user are set
\* and the URL is cleaned.
C36_CallbackAllOrNothing ==
  [][/\ CallbackInvoked =>
          LET call == hcalls'[Len(hcalls')]
              errorParam == SearchGet(urlQuery, "error")
          IN IF Truthy(errorParam) \/ ~Truthy(SearchGet(urlQuery, "code"))
             THEN /\ call.pc = "done"
                  /\ call.result = "threw"
                  /\ \E e \in hookState'["auth"].error :
                       e.code = IF Truthy(errorParam) THEN errorParam
                                ELSE "MISSING_CODE"
             ELSE call.pc = "exchange"
     /\ \A k \in 1..Len(hcalls') :
          CallbackEnds(k) =>
            IF hcalls'[k].failed
            THEN /\ \A b \in hcalls'[k].snap :
                      ctx'.session = b.session /\ ctx'.user = b.user
                 /\ hcalls'[k].snap # {}
                 /\ hcalls'[k].result = "threw"
                 /\ UNCHANGED <<urlQuery, replaceStates>>
            ELSE /\ ctx'.session # {}
                 /\ ctx'.user # NULL
                 /\ urlQuery' = <<>>
                 /\ replaceStates' = replaceStates + 1]_vars

\* the step is a direct call of the utility function op
UtilStep(op) == utilCalls' = utilCalls + 1 /\ lastUtil'.op = op

\* C37: the stored CSRF state is single-use: validateState(s) returns true
\* only if s is the value last stored by storeState and not yet retrieved;
\* every call of validateState or retrieveState clears the stored value, so
\* validateState with the same value directly after a validateState returns
\* false.
C37_StateSingleUse ==
  [][/\ UtilStep("storeState") =>
          stateStore' = (IF browser THEN {lastUtil'.args} ELSE {})
     /\ UtilStep("retrieveState") =>
          /\ stateStore' = {}
          /\ lastUtil'.result # NULL => stateStore = {lastUtil'.result}
     /\ UtilStep("validateState") =>
          /\ stateStore' = {}
          /\ lastUtil'.result \in BOOLEAN
          /\ lastUtil'.result <=> stateStore = {lastUtil'.args}
          /\ (lastUtil.op \in {"validateState", "retrieveState"})
               => lastUtil'.result = FALSE]_vars

\* validateState(s) returned true and the same validateState(s) then false
C37_Witness ==
  /\ browser
  /\ utilCalls = 2
  /\ lastUtil.op = "validateState"
  /\ lastUtil.args = "s1"
  /\ lastUtil.result = FALSE
  /\ lastUtil.prior = <<"validateState", "s1", TRUE>>
  /\ stateStore = {}

\* the step in which the mount-time validation ends
MountValidationEnds ==
  ctx.validation.pc # "done" /\ ctx'.validation.pc = "done"

\* a step of the mount-time validation
MountValidationStep == ctx'.validation # ctx.validation

\* C38: in the context-based provider the mount-time validation ends with
\* isLoading false whatever its outcome; it sets session only for a
\* response with valid=true and a session_id; and in every reachable state
\* isAuthenticated is true exactly when session and user are both non-null,
\* so a valid session whose profile fetch failed is not authenticated.
C38_MountValidation ==
  /\ [](/\ IsAuthenticated(ctx) <=> (ctx.session # {} /\ ctx.user # NULL)
        /\ ctx.validation.pc = "done" => ~ctx.isLoading
        /\ ctx.validation.pc # "done" => ctx.isLoading
        /\ (/\ ctx.validation.pc = "done"
            /\ ctx.validation.outcome = "valid_nouser"
            /\ ctx.validation.profile # "ok"
            /\ hcalls = <<>>)
             => ctx.session # {} /\ ~IsAuthenticated(ctx))
  /\ [][/\ MountValidationEnds => ~ctx'.isLoading
        /\ (MountValidationStep /\ ctx'.session # ctx.session) =>
             /\ ctx.validation.pc = "validate"
             /\ ctx'.validation.outcome \in {"valid_user", "valid_nouser"}
             /\ ctx'.session = {ValidatedSession}
        /\ (MountValidationStep /\ ctx.validation.pc = "validate"
              /\ ctx'.validation.outcome \in {"valid_nosid", "invalid", "reject"})
             => /\ ctx'.session = ctx.session
                /\ ctx'.user = ctx.user
                /\ ctx'.validation.pc = "done"]_vars

\* a valid session whose profile fetch was rejected: loaded, not authenticated
C38_Witness ==
  /\ ctx.validation.pc = "done"
  /\ ctx.validation.outcome = "valid_nouser"
  /\ ctx.validation.profile = "reject"
  /\ ctx.session = {ValidatedSession}
  /\ ctx.user = NULL
  /\ ~ctx.isLoading
  /\ ~IsAuthenticated(ctx)
====
